---- MODULE Spec2Model ----
(***************************************************************************)
(* Model of the constraint validation and type narrowing engine of         *)
(* oscal-pydantic (src/oscal_pydantic/core/base.py, class OscalModel),     *)
(* together with the rule and candidate tables of the record types that    *)
(* use it (core/properties, catalog.py).                                   *)
(*                                                                         *)
(* A rule (AllowedValue, dict[str, list]) is a function from field names   *)
(* to sequences of values.  A rule list is a sequence of rules.  A dumped  *)
(* record (model_dump) is a function from the declared field names of the  *)
(* type to values; an unset optional field holds None.                     *)
(***************************************************************************)
EXTENDS Integers, Sequences, FiniteSets, TLC

VARIABLES
    allowed_values,             \* the rule list handed to verify_allowed_values
    this_object_dict,           \* the dumped record under validation
    restricted_field_set_dict,  \* group -> bool, as left by the last run
    outcome,                    \* "none" | "Valid" | "Invalid" of the last run
    value_error_listing,        \* rule index -> number of times the error lists it
    prev_outcome,               \* outcome of the run before the last one
    prev_listing,               \* error listing of the run before the last one
    calls,                      \* number of verify_allowed_values runs so far
    self,                       \* the record the validation hook was called on
    self_after,                 \* the same object once the hook has finished
    allowed_field_types,        \* the candidate tables handed to verify_field_types
    value_check,                \* "none" | "skipped" | "Valid" | "Invalid"
    trials,                     \* the trial validations of the narrowing, in order
    typed_fields,               \* the mapping verify_field_types returned
    hook_status,                \* how the hook ended
    returned,                   \* the record the hook returned
    error_message,              \* field and candidate list named by the narrowing error
    narrow_runs,                \* narrowing passes made over the record so far
    class_field_values,         \* the rule table the type of self gives out
    class_field_types,          \* the candidate table the type of self gives out
    validations,                \* the hook calls in progress side by side
    frames,                     \* the local variables of the calls in progress
    type_tables                 \* type -> the candidate table the type gives out

value_vars == <<allowed_values, this_object_dict, restricted_field_set_dict,
                outcome, value_error_listing, prev_outcome, prev_listing, calls>>

hook_vars == <<self, self_after, allowed_field_types, value_check, trials, typed_fields,
               hook_status, returned, error_message, narrow_runs,
               class_field_values, class_field_types>>

two_vars == <<validations, frames, type_tables>>

vars == <<value_vars, hook_vars, two_vars>>

----------------------------------------------------------------------------
(* Bounds *)

\* longest generic rule list drawn by InitValues
MaxRules == 3
\* number of times verify_allowed_values is run on the same record and rules
MaxCalls == 2
\* largest number of child records (props and parts together) of a hook input
MaxChildren == 2

----------------------------------------------------------------------------
(* Values *)

None == "None"

OSCAL_NS == "http://csrc.nist.gov/ns/oscal"
RMF_NS == "http://csrc.nist.gov/ns/rmf"

\* Python's `value in list`
InList(value, list) == \E i \in 1..Len(list) : list[i] = value

\* the rule with one field
Rule1(f, l) == [x \in {f} |-> l]
\* the rule with two fields
Rule2(f, l, g, m) == [x \in {f, g} |-> IF x = f THEN l ELSE m]

----------------------------------------------------------------------------
(* Rule tables of the record types *)

\* OscalModel.get_allowed_field_values: the root of every chain declares nothing
OscalModel_allowed_field_values == << >>

BaseProperty_allowed_field_values == OscalModel_allowed_field_values

OscalBaseProperty_allowed_field_values ==
    << Rule1("ns", <<OSCAL_NS>>) >> \o BaseProperty_allowed_field_values

\* the list without the rules of the parent
OscalMarkingProperty_own_rules_only == << Rule1("name", <<"marking">>) >>

OscalMarkingProperty_allowed_field_values ==
    << Rule1("name", <<"marking">>) >> \o OscalBaseProperty_allowed_field_values

\* TelephoneNumber declares the fields type and number; its rule is on ns
TelephoneNumber_allowed_field_values ==
    << Rule1("ns", << "home", "office", "mobile" >>) >>
    \o OscalModel_allowed_field_values

ResourceTypeValues ==
    << "logo", "image", "screen-shot", "law", "regulation", "standard",
       "external-guidance", "acronyms", "citation", "policy", "procedure",
       "system-guide", "users-guide", "administrators-guide",
       "rules-of-behavior", "plan", "artifact", "evidence", "tool-output",
       "raw-data", "interview-notes", "questionnaire", "report", "agreement" >>

OscalResourceProperty_allowed_field_values ==
    << Rule1("name", <<"version">>),
       Rule2("name", <<"type">>, "value", ResourceTypeValues),
       Rule1("name", <<"published">>) >>
    \o OscalBaseProperty_allowed_field_values

----------------------------------------------------------------------------
(* OscalModel.flatten_allowed_value_keys_lists *)

flatten_allowed_value_keys_lists(allowed_values_list) ==
    UNION { DOMAIN allowed_values_list[i] : i \in 1..Len(allowed_values_list) }

\* every field the rules mention, whether the record has it or not
restricted_fields_of_the_rules(object_dict, allowed_values_list) ==
    flatten_allowed_value_keys_lists(allowed_values_list)

\* the fields of the dumped record that some rule mentions
restricted_fields_in_this_object(object_dict, allowed_values_list) ==
    { field \in DOMAIN object_dict :
        field \in flatten_allowed_value_keys_lists(allowed_values_list) }

----------------------------------------------------------------------------
(* OscalModel.get_restricted_field_set_dict                                *)
(*                                                                         *)
(* The loop over the set built so far leaves through `break` in each of    *)
(* its three branches, so it looks at exactly one element: the one the     *)
(* set iterator yields first.  The iteration order of a set of frozensets  *)
(* of strings follows the string hashes, which differ from one interpreter *)
(* run to the next, so the element is a choice among all of the set.       *)
(***************************************************************************)

\* the inner loop with its last branch dropping the unrelated rule
partition_visit_drop_unrelated(restricted_fields, allowed_value_fs, restricted_field) ==
    IF allowed_value_fs \subseteq restricted_field
    THEN restricted_fields
    ELSE IF restricted_field \subseteq allowed_value_fs
         THEN (restricted_fields \ {restricted_field}) \cup {allowed_value_fs}
         ELSE restricted_fields

\* the inner loop taking a smaller group out without putting the key set of
\* the rule in its place
partition_visit_remove_only(restricted_fields, allowed_value_fs, restricted_field) ==
    IF allowed_value_fs \subseteq restricted_field
    THEN restricted_fields
    ELSE IF restricted_field \subseteq allowed_value_fs
         THEN restricted_fields \ {restricted_field}
         ELSE restricted_fields \cup {allowed_value_fs}

\* the body of the inner loop for the element `restricted_field`
partition_visit(restricted_fields, allowed_value_fs, restricted_field) ==
    IF allowed_value_fs \subseteq restricted_field
    THEN restricted_fields
    ELSE IF restricted_field \subseteq allowed_value_fs
         THEN (restricted_fields \ {restricted_field}) \cup {allowed_value_fs}
         ELSE restricted_fields \cup {allowed_value_fs}

\* one pass of the outer loop: every set of groups it can leave behind
partition_step(restricted_fields, allowed_value_fs) ==
    IF restricted_fields = {}
    THEN { {allowed_value_fs} }
    ELSE { partition_visit(restricted_fields, allowed_value_fs, restricted_field) :
             restricted_field \in restricted_fields }

RECURSIVE partition_from(_, _, _)
partition_from(allowed_values_list, i, restricted_fields) ==
    IF i > Len(allowed_values_list)
    THEN { restricted_fields }
    ELSE UNION { partition_from(allowed_values_list, i + 1, next) :
                   next \in partition_step(restricted_fields,
                                           DOMAIN allowed_values_list[i]) }

\* every key set of the dict the method can return
get_restricted_field_set_dict(allowed_values_list) ==
    partition_from(allowed_values_list, 1, {})

----------------------------------------------------------------------------
(* OscalModel.verify_allowed_values *)

\* the rules scoped to a group: those whose key set the group includes
allowed_values_to_check(allowed_values_list, restricted_field_set) ==
    { i \in 1..Len(allowed_values_list) :
        DOMAIN allowed_values_list[i] \subseteq restricted_field_set }

\* the test letting an unset value pass
field_matches_unset_passes(object_dict, allowed_value_dict, field) ==
    /\ field \in DOMAIN object_dict
    /\ \/ object_dict[field] = None
       \/ InList(object_dict[field], allowed_value_dict[field])

\* the test of lines 219-222 for one field of one rule
field_matches(object_dict, allowed_value_dict, field) ==
    /\ field \in DOMAIN object_dict
    /\ InList(object_dict[field], allowed_value_dict[field])

\* the flag the loops of lines 206-223 leave for a group
group_flag(object_dict, allowed_values_list, restricted_field_set) ==
    \E i \in allowed_values_to_check(allowed_values_list, restricted_field_set) :
        \E field \in DOMAIN allowed_values_list[i] :
            field_matches(object_dict, allowed_values_list[i], field)

\* the groups whose flag is still False
incorrect_value_sets(field_set_dict) ==
    { r_field \in DOMAIN field_set_dict : field_set_dict[r_field] = FALSE }

\* how many times each rule is written into the error text
error_listing(allowed_values_list, field_set_dict) ==
    [ i \in 1..Len(allowed_values_list) |->
        Cardinality({ incorrect_value_set \in incorrect_value_sets(field_set_dict) :
                        DOMAIN allowed_values_list[i] \subseteq incorrect_value_set }) ]

NoListing == << >>

VerifyAllowedValues ==
    /\ calls < MaxCalls
    /\ calls' = calls + 1
    /\ prev_outcome' = outcome
    /\ prev_listing' = value_error_listing
    /\ IF restricted_fields_in_this_object(this_object_dict, allowed_values) = {}
       THEN /\ restricted_field_set_dict' = << >>
            /\ outcome' = "Valid"
            /\ value_error_listing' = NoListing
       ELSE \E groups \in get_restricted_field_set_dict(allowed_values) :
              LET field_set_dict ==
                    [ g \in groups |->
                        group_flag(this_object_dict, allowed_values, g) ]
              IN /\ restricted_field_set_dict' = field_set_dict
                 /\ IF incorrect_value_sets(field_set_dict) = {}
                    THEN /\ outcome' = "Valid"
                         /\ value_error_listing' = NoListing
                    ELSE /\ outcome' = "Invalid"
                         /\ value_error_listing' =
                                error_listing(allowed_values, field_set_dict)
    /\ UNCHANGED <<allowed_values, this_object_dict, hook_vars, two_vars>>

----------------------------------------------------------------------------
(* Inputs of the allowed-value check *)

GenericFields == {"a", "b", "c"}
GenericValues == {"1", "2"}

\* generic rules: every non-empty key set with the list ["1"], and {a: ["2"]}
GenericRules ==
    { [f \in ks |-> <<"1">>] : ks \in (SUBSET GenericFields) \ {{}} }
    \cup { Rule1("a", <<"2">>) }

RECURSIVE SeqsUpTo(_, _)
SeqsUpTo(S, n) ==
    IF n = 0 THEN { << >> }
    ELSE LET shorter == SeqsUpTo(S, n - 1)
         IN shorter \cup { Append(s, x) : s \in { t \in shorter : Len(t) = n - 1 }, x \in S }

GenericRuleLists == SeqsUpTo(GenericRules, MaxRules) \ { << >> }

GenericRecords == [GenericFields -> GenericValues \cup {None}]

\* the rule list { {a: [1,2]}, {a: [3], b: [4]} } and its records
P2Rules == << Rule1("a", <<"1", "2">>), Rule2("a", <<"3">>, "b", <<"4">>) >>
P2Records == [{"a", "b"} -> {"2", "3", "4", "5", None}]

\* the rule list { {x: [1]}, {y: [2]} } and its records
P3Rules == << Rule1("x", <<"1">>), Rule1("y", <<"2">>) >>
P3Records == [{"x", "y"} -> {"1", "2", "9", None}]

\* one rule over {name, value} and one over {name, prop_class}
NameValueClassRules ==
    << Rule2("name", <<"type">>, "value", <<"data-center">>),
       Rule2("name", <<"type">>, "prop_class", <<"primary">>) >>
NameValueClassRecords ==
    [{"name", "value", "prop_class"} -> {"type", "data-center", "primary", None}]

\* dumped resource properties: name and value are required, ns has a default
ResourcePropertyRecords ==
    { [f \in {"name", "ns", "value", "prop_class"} |->
         CASE f = "name" -> n
           [] f = "value" -> v
           [] f = "ns" -> s
           [] OTHER -> None] :
      n \in {"type", "version", "label"},
      v \in {"logo", "image", "bogus", "9"},
      s \in {OSCAL_NS, RMF_NS} }

\* dumped marking properties
MarkingPropertyRecords ==
    { [f \in {"name", "ns", "value", "prop_class"} |->
         CASE f = "name" -> n
           [] f = "value" -> v
           [] f = "ns" -> s
           [] OTHER -> None] :
      n \in {"marking", "label"},
      v \in {"confidential", "9"},
      s \in {OSCAL_NS, RMF_NS} }

\* dumped telephone numbers: both fields are optional
TelephoneNumberRecords == [{"type", "number"} -> {"home", "fax", "555-0100", None}]

\* Party.get_allowed_field_values: one rule, on the optional field type
Party_allowed_field_values ==
    << Rule1("type", << "person", "organization" >>) >>
    \o OscalModel_allowed_field_values

\* dumped parties: type and name are optional and None when left out
PartyRecords == [{"type", "name"} -> {"person", "organization", "team", None}]

\* no record: the hook has not been called
NoRecord == [type |-> "none"]

\* the empty mapping of narrowed fields
NoFields == << >>

\* no narrowing error has been raised
NoMessage == [field |-> None, types |-> << >>]

HookIdle ==
    /\ self = NoRecord
    /\ self_after = NoRecord
    /\ allowed_field_types = << >>
    /\ value_check = "none"
    /\ trials = << >>
    /\ typed_fields = NoFields
    /\ hook_status = "none"
    /\ returned = NoRecord
    /\ error_message = NoMessage
    /\ narrow_runs = 0
    /\ class_field_values = << >>
    /\ class_field_types = << >>

\* no hook calls side by side
TwoIdle ==
    /\ validations = << >>
    /\ frames = << >>
    /\ type_tables = << >>

InitValues ==
    /\ \/ allowed_values \in GenericRuleLists /\ this_object_dict \in GenericRecords
       \/ allowed_values = P2Rules /\ this_object_dict \in P2Records
       \/ allowed_values = P3Rules /\ this_object_dict \in P3Records
       \/ /\ allowed_values = NameValueClassRules
          /\ this_object_dict \in NameValueClassRecords
       \/ /\ allowed_values = OscalResourceProperty_allowed_field_values
          /\ this_object_dict \in ResourcePropertyRecords
       \/ /\ allowed_values = OscalMarkingProperty_allowed_field_values
          /\ this_object_dict \in MarkingPropertyRecords
       \/ /\ allowed_values = TelephoneNumber_allowed_field_values
          /\ this_object_dict \in TelephoneNumberRecords
       \/ /\ allowed_values = Party_allowed_field_values
          /\ this_object_dict \in PartyRecords
    /\ restricted_field_set_dict = << >>
    /\ outcome = "none"
    /\ value_error_listing = NoListing
    /\ prev_outcome = "none"
    /\ prev_listing = NoListing
    /\ calls = 0
    /\ HookIdle
    /\ TwoIdle

NextValues == VerifyAllowedValues

SpecValues == InitValues /\ [][NextValues]_vars

----------------------------------------------------------------------------
(* Records with nested records                                             *)
(*                                                                         *)
(* An instance of a property type is [type, name, ns, value]; an instance  *)
(* of a part type is [type, name, ns, props, parts].  A field that holds   *)
(* records is Unset (None), Single(record) or List(sequence of records).   *)
(* model_dump gives the same tree without the types; its `kind` stands for *)
(* the set of keys of the dumped dict.                                     *)
(***************************************************************************)

Unset == [kind |-> "unset"]
Single(item) == [kind |-> "single", item |-> item]
List(items) == [kind |-> "list", items |-> items]

\* the property types records are built as
InstanceTypes ==
    { "BaseProperty", "OscalPartProperty", "OscalAssessmentMethodProperty",
      "RmfAssessmentMethodProperty" }

PropertyTypes == InstanceTypes \cup { "OscalControlProperty" }

PartTypes == { "BasePart", "OscalPart", "StatementPart", "StatementItemPart" }

\* the fields a type declares: all property types share BaseProperty's fields,
\* all part types share BasePart's; a telephone number and a control have
\* their own
TypeKind(T) ==
    IF T \in PropertyTypes THEN "prop"
    ELSE IF T = "TelephoneNumber" THEN "phone"
    ELSE IF T = "Control" THEN "control" ELSE "part"

\* the declared type of the elements of a record-valued field
DeclaredItemType(field) == IF field = "props" THEN "BaseProperty" ELSE "BasePart"

----------------------------------------------------------------------------
(* Rule and candidate tables of the property and part types *)

AssessmentMethodValues == << "INTERVIEW", "EXAMINE", "TEST" >>

OscalPartProperty_allowed_field_values ==
    << Rule1("name", << "label", "sort-id", "alt-identifier" >>) >>
    \o OscalBaseProperty_allowed_field_values

OscalAssessmentMethodProperty_allowed_field_values ==
    << Rule2("name", << "method" >>, "value", AssessmentMethodValues) >>
    \o OscalBaseProperty_allowed_field_values

OscalControlProperty_allowed_field_values ==
    << Rule1("name", << "label", "sort-id", "alt-identifier" >>),
       Rule2("name", << "status" >>, "value", << "Withdrawn", "withdrawn" >>) >>
    \o OscalBaseProperty_allowed_field_values

RmfBaseProperty_allowed_field_values ==
    << Rule1("ns", << RMF_NS >>) >> \o BaseProperty_allowed_field_values

RmfAssessmentMethodProperty_allowed_field_values ==
    << Rule2("name", << "method" >>, "value", AssessmentMethodValues) >>
    \o RmfBaseProperty_allowed_field_values

BasePart_allowed_field_values == OscalModel_allowed_field_values

OscalPart_allowed_field_values ==
    << Rule1("ns", << OSCAL_NS >>) >> \o BasePart_allowed_field_values

StatementPart_allowed_field_values ==
    << Rule1("name", << "statement" >>) >> \o OscalPart_allowed_field_values

StatementItemPart_allowed_field_values ==
    << Rule1("name", << "item" >>) >> \o OscalPart_allowed_field_values

AssesmentMethodPart_allowed_field_values ==
    << Rule1("name", << "assessment", "assessment-method" >>) >>
    \o OscalPart_allowed_field_values

AssessmentObjectPart_allowed_field_values ==
    << Rule1("name", << "assessment-objects", "objects" >>) >>
    \o OscalPart_allowed_field_values

\* cls.get_allowed_field_values()
get_allowed_field_values(T) ==
    CASE T = "BaseProperty" -> BaseProperty_allowed_field_values
      [] T = "OscalPartProperty" -> OscalPartProperty_allowed_field_values
      [] T = "OscalAssessmentMethodProperty" ->
            OscalAssessmentMethodProperty_allowed_field_values
      [] T = "RmfAssessmentMethodProperty" ->
            RmfAssessmentMethodProperty_allowed_field_values
      [] T = "OscalControlProperty" -> OscalControlProperty_allowed_field_values
      [] T = "Control" -> OscalModel_allowed_field_values
      [] T = "BasePart" -> BasePart_allowed_field_values
      [] T = "OscalPart" -> OscalPart_allowed_field_values
      [] T = "StatementPart" -> StatementPart_allowed_field_values
      [] T = "StatementItemPart" -> StatementItemPart_allowed_field_values
      [] T = "AssesmentMethodPart" -> AssesmentMethodPart_allowed_field_values
      [] T = "AssessmentObjectPart" -> AssessmentObjectPart_allowed_field_values
      [] T = "TelephoneNumber" -> TelephoneNumber_allowed_field_values

\* OscalModel.get_allowed_field_types: the root declares nothing
OscalModel_allowed_field_types == << >>

BasePart_allowed_field_types ==
    << Rule1("props", << "OscalPartProperty", "OscalAssessmentMethodProperty",
                         "RmfAssessmentMethodProperty" >>) >>
    \o OscalModel_allowed_field_types

OscalPart_allowed_field_types == BasePart_allowed_field_types

StatementPart_allowed_field_types ==
    << Rule1("parts", << "StatementItemPart" >>) >> \o OscalPart_allowed_field_types

StatementItemPart_allowed_field_types ==
    << Rule1("parts", << "StatementItemPart" >>) >> \o OscalPart_allowed_field_types

\* the entries AssesmentMethodPart declares itself, then those of its parent
AssesmentMethodPart_allowed_field_types ==
    << Rule1("parts", << "AssessmentObjectPart" >>),
       Rule1("props", << "OscalAssessmentMethodProperty" >>) >>
    \o OscalPart_allowed_field_types

AssessmentObjectPart_allowed_field_types == OscalPart_allowed_field_types

\* Control.get_allowed_subfield_types: the candidates Control declares, under
\* a name the hook does not call
Control_allowed_subfield_types ==
    << Rule1("props", << "OscalControlProperty" >>) >>
    \o OscalModel_allowed_field_types

\* the class a property type is derived from
property_parent_type(T) ==
    CASE T \in {"OscalPartProperty", "OscalControlProperty",
                "OscalAssessmentMethodProperty"} -> "OscalBaseProperty"
      [] T = "RmfAssessmentMethodProperty" -> "RmfBaseProperty"
      [] T \in {"OscalBaseProperty", "RmfBaseProperty"} -> "BaseProperty"
      [] OTHER -> "OscalModel"

\* the class a type is derived from
parent_type(T) ==
    CASE T \in {"StatementPart", "StatementItemPart", "AssesmentMethodPart",
                "AssessmentObjectPart"} -> "OscalPart"
      [] T = "OscalPart" -> "BasePart"
      [] OTHER -> property_parent_type(T)

\* issubclass(T, U)
RECURSIVE issubclass(_, _)
issubclass(T, U) ==
    \/ T = U
    \/ T # "OscalModel" /\ issubclass(parent_type(T), U)

\* cls.get_allowed_field_types()
get_allowed_field_types(T) ==
    CASE T = "BasePart" -> BasePart_allowed_field_types
      [] T = "OscalPart" -> OscalPart_allowed_field_types
      [] T = "StatementPart" -> StatementPart_allowed_field_types
      [] T = "StatementItemPart" -> StatementItemPart_allowed_field_types
      [] T = "AssesmentMethodPart" -> AssesmentMethodPart_allowed_field_types
      [] T = "AssessmentObjectPart" -> AssessmentObjectPart_allowed_field_types
      [] OTHER -> OscalModel_allowed_field_types

\* the candidate tables written in the class of a type, under whatever name
declared_field_types(T) ==
    IF T = "Control" THEN Control_allowed_subfield_types
    ELSE get_allowed_field_types(T)

----------------------------------------------------------------------------
(* model_dump and attribute access *)

RECURSIVE model_dump(_)

dump_field(v) ==
    CASE v.kind = "unset" -> Unset
      [] v.kind = "single" -> Single(model_dump(v.item))
      [] v.kind = "list" -> List([i \in 1..Len(v.items) |-> model_dump(v.items[i])])

model_dump(obj) ==
    IF TypeKind(obj.type) = "prop"
    THEN [kind |-> "prop", name |-> obj.name, ns |-> obj.ns, value |-> obj.value]
    ELSE IF TypeKind(obj.type) = "phone"
    THEN [kind |-> "phone", phone_type |-> obj.phone_type, number |-> obj.number]
    ELSE IF TypeKind(obj.type) = "control"
    THEN [kind |-> "control", id |-> obj.id, title |-> obj.title,
          props |-> dump_field(obj.props), parts |-> dump_field(obj.parts)]
    ELSE [kind |-> "part", name |-> obj.name, ns |-> obj.ns,
          props |-> dump_field(obj.props), parts |-> dump_field(obj.parts)]

\* the entries of self.model_dump() that hold plain values, which are the only
\* ones the rules of these types mention
scalar_dump(obj) ==
    IF TypeKind(obj.type) = "prop"
    THEN [f \in {"name", "ns", "value", "prop_class"} |->
            CASE f = "name" -> obj.name
              [] f = "ns" -> obj.ns
              [] f = "value" -> obj.value
              [] OTHER -> None]
    ELSE IF TypeKind(obj.type) = "phone"
    THEN [f \in {"type", "number"} |->
            IF f = "type" THEN obj.phone_type ELSE obj.number]
    ELSE IF TypeKind(obj.type) = "control"
    THEN [f \in {"id", "title", "control_class"} |->
            CASE f = "id" -> obj.id
              [] f = "title" -> obj.title
              [] OTHER -> None]
    ELSE [f \in {"name", "ns", "part_class"} |->
            CASE f = "name" -> obj.name
              [] f = "ns" -> obj.ns
              [] OTHER -> None]

\* getattr(self, field, None) for a record-valued field
field_value(obj, field) ==
    IF field \in DOMAIN obj THEN obj[field] ELSE Unset

----------------------------------------------------------------------------
(* The allowed-value check inside a nested validation *)

\* the result of verify_allowed_values for the groups the partitioning returned
value_check_of(obj, groups) ==
    LET rules == get_allowed_field_values(obj.type)
    IN IF Len(rules) = 0 THEN "skipped"
       ELSE IF restricted_fields_in_this_object(scalar_dump(obj), rules) = {}
            THEN "Valid"
            ELSE IF \A g \in groups : group_flag(scalar_dump(obj), rules, g)
                 THEN "Valid"
                 ELSE "Invalid"

\* verify_allowed_values does not raise
value_check_passes(obj) ==
    \E groups \in get_restricted_field_set_dict(get_allowed_field_values(obj.type)) :
        value_check_of(obj, groups) # "Invalid"

----------------------------------------------------------------------------
(* OscalModel.verify_field_types: merging the candidate entries *)

RECURSIVE set_to_seq(_)
set_to_seq(S) ==
    IF S = {} THEN << >>
    ELSE LET x == CHOOSE y \in S : TRUE IN << x >> \o set_to_seq(S \ {x})

\* the keys of the merged dict in insertion order
RECURSIVE field_order_from(_, _, _)
field_order_from(allowed_subfields, k, order) ==
    IF k > Len(allowed_subfields) THEN order
    ELSE LET fresh == { f \in DOMAIN allowed_subfields[k] : ~ InList(f, order) }
         IN field_order_from(allowed_subfields, k + 1, order \o set_to_seq(fresh))

field_order(allowed_subfields) == field_order_from(allowed_subfields, 1, << >>)

RECURSIVE merged_list_from(_, _, _)
merged_list_from(allowed_subfields, field, k) ==
    IF k > Len(allowed_subfields) THEN << >>
    ELSE ( IF field \in DOMAIN allowed_subfields[k]
           THEN allowed_subfields[k][field] ELSE << >> )
         \o merged_list_from(allowed_subfields, field, k + 1)

\* the merge with a later entry replacing the list of an earlier one
flattened_last_entry_wins(allowed_subfields) ==
    [ field \in UNION { DOMAIN allowed_subfields[k] : k \in 1..Len(allowed_subfields) } |->
        LET last == CHOOSE k \in 1..Len(allowed_subfields) :
                        /\ field \in DOMAIN allowed_subfields[k]
                        /\ \A j \in (k + 1)..Len(allowed_subfields) :
                              field \notin DOMAIN allowed_subfields[j]
        IN allowed_subfields[last][field] ]

\* the merge with the first entry for a field overriding the later ones
flattened_first_entry_wins(allowed_subfields) ==
    [ field \in UNION { DOMAIN allowed_subfields[k] : k \in 1..Len(allowed_subfields) } |->
        LET first == CHOOSE k \in 1..Len(allowed_subfields) :
                         /\ field \in DOMAIN allowed_subfields[k]
                         /\ \A j \in 1..(k - 1) : field \notin DOMAIN allowed_subfields[j]
        IN allowed_subfields[first][field] ]

\* field -> the lists of all entries for the field, concatenated in entry order
flattened_restricted_fields(allowed_subfields) ==
    [ field \in UNION { DOMAIN allowed_subfields[k] : k \in 1..Len(allowed_subfields) } |->
        merged_list_from(allowed_subfields, field, 1) ]

\* the table verify_field_types was handed, as lines 91-97 leave it: the list
\* of the first entry naming a field has been extended by the lists of the
\* later entries naming it
merged_in_place(allowed_subfields) ==
    [ k \in 1..Len(allowed_subfields) |->
        [ field \in DOMAIN allowed_subfields[k] |->
            IF \A j \in 1..(k - 1) : field \notin DOMAIN allowed_subfields[j]
            THEN merged_list_from(allowed_subfields, field, k)
            ELSE allowed_subfields[k][field] ] ]

\* the class method handing out the one list the class keeps
table_shared_with_the_caller(class_table, handed) == handed

\* the table of a class once a list its get_allowed_field_values or
\* get_allowed_field_types had given out has been left as `handed`: the
\* methods build their lists anew at every call, so the class is not affected
table_after_call(class_table, handed) == class_table

----------------------------------------------------------------------------
(* model_validate, set_field_to_precise_type, verify_field_types and the   *)
(* validation hook, as functions of the record                             *)
(***************************************************************************)

RECURSIVE model_validate(_, _)
RECURSIVE verify_field_types(_, _)

\* the test made with isinstance: a record of a subclass of a candidate counts
already_typed_isinstance(field_object, types_to_check) ==
    \E k \in 1..Len(types_to_check) : issubclass(field_object.type, types_to_check[k])

\* lines 114, 132 and 160: type(field_object) in types_to_check, the class of
\* the record itself being one of the candidates
already_typed(field_object, types_to_check) ==
    InList(field_object.type, types_to_check)

Raised == [ok |-> FALSE, rec |-> NoRecord, log |-> << >>]

\* the loop over the candidates keeping the last type that validates
RECURSIVE try_types_keep_last(_, _, _)
try_types_keep_last(data, types_to_check, k) ==
    IF k > Len(types_to_check) THEN Raised
    ELSE LET entry(ok) == << [type |-> types_to_check[k], ok |-> ok] >>
             trial(typed_object, rest) ==
                 IF rest.ok THEN [rest EXCEPT !.log = entry(typed_object.ok) \o @]
                 ELSE IF typed_object.ok
                      THEN [ok |-> TRUE, rec |-> typed_object.rec,
                            log |-> entry(TRUE) \o rest.log]
                      ELSE [rest EXCEPT !.log = entry(FALSE) \o @]
         IN trial(model_validate(types_to_check[k], data),
                  try_types_keep_last(data, types_to_check, k + 1))

\* the loop of lines 163-177 from candidate k on: the first candidate that
\* validates the dumped data is returned, the error is raised after the last
RECURSIVE try_types(_, _, _)
try_types(data, types_to_check, k) ==
    IF k > Len(types_to_check) THEN Raised
    ELSE LET entry(ok) == << [type |-> types_to_check[k], ok |-> ok] >>
             trial(typed_object, rest) ==
                 IF typed_object.ok
                 THEN [ok |-> TRUE, rec |-> typed_object.rec, log |-> entry(TRUE)]
                 ELSE [rest EXCEPT !.log = entry(FALSE) \o @]
         IN trial(model_validate(types_to_check[k], data),
                  try_types(data, types_to_check, k + 1))

\* the record handed back as it is when no candidate validates it
set_field_to_precise_type_or_keep(field_object, types_to_check) ==
    LET kept(r) == IF r.ok THEN r
                   ELSE [ok |-> TRUE, rec |-> field_object, log |-> r.log]
    IN IF already_typed(field_object, types_to_check)
       THEN [ok |-> TRUE, rec |-> field_object, log |-> << >>]
       ELSE kept(try_types(model_dump(field_object), types_to_check, 1))

set_field_to_precise_type(field_object, types_to_check) ==
    IF already_typed(field_object, types_to_check)
    THEN [ok |-> TRUE, rec |-> field_object, log |-> << >>]
    ELSE try_types(model_dump(field_object), types_to_check, 1)

\* a trial of set_field_to_precise_type as an entry of the trial log
log_entries(field, index, log) ==
    [ j \in 1..Len(log) |->
        [field |-> field, index |-> index, type |-> log[j].type, ok |-> log[j].ok] ]

\* the loop keeping an element that validates as no candidate and going on
RECURSIVE narrow_items_skip_failed(_, _, _, _)
narrow_items_skip_failed(field, items, types_to_check, index) ==
    IF index > Len(items)
    THEN [ok |-> TRUE, updated |-> {}, values |-> << >>, log |-> << >>]
    ELSE LET kept(rest) == [rest EXCEPT !.values = << items[index] >> \o @]
             narrowed(r, rest) ==
                 IF ~ r.ok
                 THEN [rest EXCEPT !.values = << items[index] >> \o @,
                                   !.log = log_entries(field, index, r.log) \o @]
                 ELSE [ok |-> TRUE,
                       updated |-> {index} \cup rest.updated,
                       values |-> << r.rec >> \o rest.values,
                       log |-> log_entries(field, index, r.log) \o rest.log]
         IN IF already_typed(items[index], types_to_check)
            THEN kept(narrow_items_skip_failed(field, items, types_to_check, index + 1))
            ELSE narrowed(set_field_to_precise_type(items[index], types_to_check),
                          narrow_items_skip_failed(field, items, types_to_check,
                                                   index + 1))

\* the loop recording every element, narrowed or not, as an updated one
RECURSIVE narrow_items_mark_kept(_, _, _, _)
narrow_items_mark_kept(field, items, types_to_check, index) ==
    IF index > Len(items)
    THEN [ok |-> TRUE, updated |-> {}, values |-> << >>, log |-> << >>]
    ELSE LET kept(rest) ==
                 [rest EXCEPT !.values = << items[index] >> \o @,
                              !.updated = IF rest.ok THEN {index} \cup @ ELSE {}]
             narrowed(r, rest) ==
                 IF ~ r.ok
                 THEN [ok |-> FALSE, updated |-> {}, values |-> << >>,
                       log |-> log_entries(field, index, r.log)]
                 ELSE [ok |-> rest.ok,
                       updated |-> IF rest.ok THEN {index} \cup rest.updated ELSE {},
                       values |-> IF rest.ok THEN << r.rec >> \o rest.values ELSE << >>,
                       log |-> log_entries(field, index, r.log) \o rest.log]
         IN IF already_typed(items[index], types_to_check)
            THEN kept(narrow_items_mark_kept(field, items, types_to_check, index + 1))
            ELSE narrowed(set_field_to_precise_type(items[index], types_to_check),
                          narrow_items_mark_kept(field, items, types_to_check,
                                                 index + 1))

\* the loop of lines 130-142 from position index on: `values` holds, for each
\* position from index on, the narrowed record or the element itself
RECURSIVE narrow_items(_, _, _, _)
narrow_items(field, items, types_to_check, index) ==
    IF index > Len(items)
    THEN [ok |-> TRUE, updated |-> {}, values |-> << >>, log |-> << >>]
    ELSE LET kept(rest) == [rest EXCEPT !.values = << items[index] >> \o @]
             narrowed(r, rest) ==
                 IF ~ r.ok
                 THEN [ok |-> FALSE, updated |-> {}, values |-> << >>,
                       log |-> log_entries(field, index, r.log)]
                 ELSE [ok |-> rest.ok,
                       updated |-> IF rest.ok THEN {index} \cup rest.updated ELSE {},
                       values |-> IF rest.ok THEN << r.rec >> \o rest.values ELSE << >>,
                       log |-> log_entries(field, index, r.log) \o rest.log]
         IN IF already_typed(items[index], types_to_check)
            THEN kept(narrow_items(field, items, types_to_check, index + 1))
            ELSE narrowed(set_field_to_precise_type(items[index], types_to_check),
                          narrow_items(field, items, types_to_check, index + 1))

\* the narrowed list written back in reverse order
apply_updates_reversed(items, updated, values) ==
    [ i \in 1..Len(items) |->
        IF (Len(items) + 1 - i) \in updated
        THEN values[Len(items) + 1 - i] ELSE items[Len(items) + 1 - i] ]

\* the list left as it was although elements were narrowed
apply_updates_dropped(items, updated, values) == items

\* lines 145-147: field_object[index] = updated_field for every narrowed index
apply_updates(items, updated, values) ==
    [ i \in 1..Len(items) |-> IF i \in updated THEN values[i] ELSE items[i] ]

\* the loop of lines 103-150 from the k-th field on.  obj is self with the
\* lists narrowed so far replaced in place, copy is obj with the narrowed
\* single records set as well (what model_copy(update=typed_fields) gives).
RECURSIVE verify_fields_from(_, _, _, _, _)
verify_fields_from(obj, copy, flattened, order, k) ==
    IF k > Len(order)
    THEN [ok |-> TRUE, changed |-> {}, self_after |-> obj, copy |-> copy,
          log |-> << >>, failed |-> None, message |-> NoMessage]
    ELSE
      LET field == order[k]
          field_object == field_value(obj, field)
          types_to_check == flattened[field]
          \* lines 123-125 and 140-142: the error names the field and its
          \* merged candidate list
          raised(log) == [ok |-> FALSE, changed |-> {}, self_after |-> obj,
                          copy |-> NoRecord, log |-> log, failed |-> field,
                          message |-> [field |-> field, types |-> types_to_check]]
          \* the remaining fields, this one having been narrowed
          typed(rest, log) ==
              [rest EXCEPT !.changed = IF rest.ok THEN @ \cup {field} ELSE {},
                           !.log = log \o @]
          single(r) ==
              IF ~ r.ok THEN raised(log_entries(field, 0, r.log))
              ELSE typed(verify_fields_from(obj, [copy EXCEPT ![field] = Single(r.rec)],
                                            flattened, order, k + 1),
                         log_entries(field, 0, r.log))
          replaced(narrowed, log) ==
              typed(verify_fields_from([obj EXCEPT ![field] = narrowed],
                                       [copy EXCEPT ![field] = narrowed],
                                       flattened, order, k + 1),
                    log)
          list(r) ==
              IF ~ r.ok THEN raised(r.log)
              ELSE IF r.updated = {}
                   THEN [verify_fields_from(obj, copy, flattened, order, k + 1)
                            EXCEPT !.log = r.log \o @]
                   ELSE replaced(List(apply_updates(field_object.items,
                                                    r.updated, r.values)),
                                 r.log)
      IN CASE field_object.kind = "unset" ->
                verify_fields_from(obj, copy, flattened, order, k + 1)
           [] field_object.kind = "single" ->
                IF already_typed(field_object.item, types_to_check)
                THEN verify_fields_from(obj, copy, flattened, order, k + 1)
                ELSE single(set_field_to_precise_type(field_object.item, types_to_check))
           [] field_object.kind = "list" ->
                list(narrow_items(field, field_object.items, types_to_check, 1))

verify_field_types(obj, allowed_subfields) ==
    verify_fields_from(obj, obj, flattened_restricted_fields(allowed_subfields),
                       field_order(allowed_subfields), 1)

\* what the hook raises or returns once verify_field_types has given r
narrowing_result(obj, r) ==
    IF ~ r.ok
    THEN [status |-> "narrowing_error", ok |-> FALSE, rec |-> NoRecord,
          self_after |-> r.self_after, log |-> r.log, changed |-> {},
          narrowed |-> TRUE, message |-> r.message]
    ELSE IF r.changed # {}
         THEN [status |-> "returned_copy", ok |-> TRUE, rec |-> r.copy,
               self_after |-> r.self_after, log |-> r.log,
               changed |-> r.changed, narrowed |-> TRUE, message |-> NoMessage]
         ELSE [status |-> "returned_self", ok |-> TRUE, rec |-> obj,
               self_after |-> r.self_after, log |-> r.log, changed |-> {},
               narrowed |-> TRUE, message |-> NoMessage]

\* the hook running the narrowing whatever the allowed-value check said
hook_steps_narrow_always(obj, value_passed) ==
    LET raised(n) == [n EXCEPT !.status = "value_error", !.ok = FALSE,
                               !.rec = NoRecord, !.changed = {}]
        result(n) == IF ~ value_passed THEN raised(n) ELSE n
    IN result(narrowing_result(
                 obj, verify_field_types(obj, get_allowed_field_types(obj.type))))

\* validate_restricted_fields once verify_allowed_values has raised or returned
hook_steps(obj, value_passed) ==
    IF ~ value_passed
    THEN [status |-> "value_error", ok |-> FALSE, rec |-> NoRecord,
          self_after |-> obj, log |-> << >>, changed |-> {}, narrowed |-> FALSE,
          message |-> NoMessage]
    ELSE IF Len(get_allowed_field_types(obj.type)) > 0
         THEN narrowing_result(
                 obj, verify_field_types(obj, get_allowed_field_types(obj.type)))
         ELSE [status |-> "returned_self", ok |-> TRUE, rec |-> obj,
               self_after |-> obj, log |-> << >>, changed |-> {}, narrowed |-> FALSE,
               message |-> NoMessage]

\* validate_restricted_fields of a record built during a nested validation
validate_restricted_fields(obj) == hook_steps(obj, value_check_passes(obj))

\* the records of a dumped field built as the declared element type
build_items(field, v) ==
    LET items == CASE v.kind = "unset" -> << >>
                   [] v.kind = "single" -> << v.item >>
                   [] v.kind = "list" -> v.items
        built(rs) ==
            [ok |-> \A i \in 1..Len(rs) : rs[i].ok,
             value |-> CASE v.kind = "unset" -> Unset
                         [] v.kind = "single" -> Single(rs[1].rec)
                         [] v.kind = "list" -> List([i \in 1..Len(rs) |-> rs[i].rec])]
    IN built([i \in 1..Len(items) |->
                model_validate(DeclaredItemType(field), items[i])])

\* T.model_validate(data): the fields are populated, nested data becoming
\* records of the declared field types, then the hook of T runs
model_validate(T, data) ==
    LET failed == [ok |-> FALSE, rec |-> NoRecord]
        hook(r) == [ok |-> r.ok, rec |-> r.rec]
        populated(children) ==
            IF \E f \in DOMAIN children : ~ children[f].ok
            THEN [ok |-> FALSE, obj |-> NoRecord]
            ELSE [ok |-> TRUE,
                  obj |-> [type |-> T, name |-> data.name, ns |-> data.ns,
                           props |-> children.props.value,
                           parts |-> children.parts.value]]
        fields == IF data.kind = "prop"
                  THEN [ok |-> TRUE,
                        obj |-> [type |-> T, name |-> data.name, ns |-> data.ns,
                                 value |-> data.value]]
                  ELSE populated([f \in {"props", "parts"} |->
                                     build_items(f, data[f])])
        validated(p) == IF ~ p.ok THEN failed
                        ELSE hook(validate_restricted_fields(p.obj))
    IN IF data.kind # TypeKind(T) THEN failed ELSE validated(fields)

----------------------------------------------------------------------------
(* The validation hook as an operation on a record *)

\* what the call of verify_allowed_values in the hook leaves behind: nothing
\* when the type has no rules (line 307), no groups when no field of the
\* record is mentioned (lines 195-196), else the flags of the groups
verify_allowed_values_run(obj, groups, check) ==
    \E field_set_dict \in
          { IF check = "skipped"
               \/ restricted_fields_in_this_object(
                      scalar_dump(obj), get_allowed_field_values(obj.type)) = {}
            THEN << >>
            ELSE [ g \in groups |->
                     group_flag(scalar_dump(obj), get_allowed_field_values(obj.type), g) ] } :
        /\ allowed_values' = get_allowed_field_values(obj.type)
        /\ this_object_dict' = IF check = "skipped" THEN << >> ELSE scalar_dump(obj)
        /\ restricted_field_set_dict' = field_set_dict
        /\ outcome' = IF check = "skipped" THEN "none" ELSE check
        /\ value_error_listing' =
              IF check = "Invalid"
              THEN error_listing(get_allowed_field_values(obj.type), field_set_dict)
              ELSE NoListing
        /\ calls' = IF check = "skipped" THEN calls ELSE calls + 1

\* OscalModel.validate_restricted_fields
ValidateRestrictedFields ==
    /\ hook_status = "none"
    /\ self # NoRecord
    /\ \E groups \in get_restricted_field_set_dict(get_allowed_field_values(self.type)) :
          \E check \in { value_check_of(self, groups) } :
             \E r \in { hook_steps(self, check # "Invalid") } :
                /\ value_check' = check
                /\ verify_allowed_values_run(self, groups, check)
                /\ hook_status' = r.status
                /\ self_after' = r.self_after
                /\ trials' = r.log
                /\ typed_fields' = [f \in r.changed |-> r.rec[f]]
                /\ returned' = r.rec
                /\ error_message' = r.message
                /\ narrow_runs' = IF r.narrowed THEN 1 ELSE 0
                /\ class_field_values' =
                      table_after_call(class_field_values, class_field_values)
                /\ class_field_types' =
                      table_after_call(class_field_types,
                                       IF r.narrowed
                                       THEN merged_in_place(class_field_types)
                                       ELSE class_field_types)
    /\ UNCHANGED <<self, allowed_field_types, prev_outcome, prev_listing, two_vars>>

\* OscalModel.verify_field_types run once more, on the record the hook returned
NarrowAgain ==
    /\ hook_status \in {"returned_self", "returned_copy"}
    /\ narrow_runs = 1
    /\ \E r \in { verify_field_types(returned, class_field_types) } :
          /\ trials' = r.log
          /\ typed_fields' = [f \in r.changed |-> r.copy[f]]
          /\ hook_status' = IF ~ r.ok THEN "narrowing_error"
                            ELSE IF r.changed # {} THEN "narrowed_again"
                            ELSE "unchanged_again"
          /\ returned' = IF r.ok THEN r.copy ELSE NoRecord
          /\ error_message' = r.message
          /\ narrow_runs' = narrow_runs + 1
    /\ class_field_types' =
          table_after_call(class_field_types, merged_in_place(class_field_types))
    /\ UNCHANGED <<self, self_after, allowed_field_types, value_check, value_vars,
                   class_field_values, two_vars>>

----------------------------------------------------------------------------
(* Inputs of the hook *)

PropNames == {"label", "method"}
PropValues == {"TEST", "other"}
PartNames == {"item", "statement"}
Namespaces == {OSCAL_NS, RMF_NS}
AssessmentPartNames == {"assessment-method", "item"}

PropDumps ==
    { [kind |-> "prop", name |-> n, ns |-> s, value |-> v] :
        n \in PropNames, s \in Namespaces, v \in PropValues }

\* the property records that exist: built by the validation of their own type
PropInstances ==
    { r.rec : r \in { v \in { model_validate(T, d) : T \in InstanceTypes, d \in PropDumps } :
                        v.ok } }

LeafPartDumps ==
    { [kind |-> "part", name |-> n, ns |-> OSCAL_NS, props |-> Unset, parts |-> Unset] :
        n \in PartNames }

ChildPartDumps ==
    { [kind |-> "part", name |-> n, ns |-> s, props |-> Unset, parts |-> Unset] :
        n \in PartNames, s \in Namespaces }
    \cup
    { [kind |-> "part", name |-> n, ns |-> OSCAL_NS, props |-> Unset,
       parts |-> List(<< l >>)] :
        n \in PartNames, l \in LeafPartDumps }

\* the nested parts that exist: built by the validation of their own type
ChildParts ==
    { r.rec : r \in { v \in { model_validate(T, d) :
                                 T \in {"BasePart", "StatementItemPart"},
                                 d \in ChildPartDumps } :
                        v.ok } }

SeqsOfLen(S, n) == { s \in SeqsUpTo(S, n) : Len(s) = n }

\* an optional list field holding the list l; an empty list may also be None
OptionalList(l) == IF l = << >> THEN { Unset, List(l) } ELSE { List(l) }

PhoneTypes == {"home", "fax", None}
PhoneNumbers == {"555-0100", None}

\* the children of a hook input: a list of properties and a list of parts
\* holding at most MaxChildren records together
HookChildren ==
    UNION { SeqsOfLen(PropInstances, n) \X SeqsUpTo(ChildParts, MaxChildren - n) :
              n \in 0..MaxChildren }

ValuesIdle ==
    /\ allowed_values = << >>
    /\ this_object_dict = << >>
    /\ restricted_field_set_dict = << >>
    /\ outcome = "none"
    /\ value_error_listing = NoListing
    /\ prev_outcome = "none"
    /\ prev_listing = NoListing
    /\ calls = 0

\* the hook is called on a part whose fields are populated, each child being a
\* record that passed its own validation
InitHook ==
    /\ ValuesIdle
    /\ \/ \E c \in HookChildren, T \in PartTypes, n \in PartNames, s \in Namespaces :
             \E p \in OptionalList(c[1]), q \in OptionalList(c[2]) :
                self = [type |-> T, name |-> n, ns |-> s, props |-> p, parts |-> q]
       \/ \E c \in HookChildren, n \in AssessmentPartNames :
             \E p \in OptionalList(c[1]), q \in OptionalList(c[2]) :
                self = [type |-> "AssesmentMethodPart", name |-> n, ns |-> OSCAL_NS,
                        props |-> p, parts |-> q]
       \/ \E c \in HookChildren :
             \E p \in OptionalList(c[1]), q \in OptionalList(c[2]) :
                self = [type |-> "Control", id |-> "ac-1", title |-> "Policy",
                        props |-> p, parts |-> q]
       \/ \E d \in PropDumps :
             self = [type |-> "BaseProperty", name |-> d.name, ns |-> d.ns,
                     value |-> d.value]
       \/ \E t \in PhoneTypes, n \in PhoneNumbers :
             self = [type |-> "TelephoneNumber", phone_type |-> t, number |-> n]
    /\ self_after = self
    /\ allowed_field_types = get_allowed_field_types(self.type)
    /\ value_check = "none"
    /\ trials = << >>
    /\ typed_fields = NoFields
    /\ hook_status = "none"
    /\ returned = NoRecord
    /\ error_message = NoMessage
    /\ narrow_runs = 0
    /\ class_field_values = get_allowed_field_values(self.type)
    /\ class_field_types = get_allowed_field_types(self.type)
    /\ TwoIdle

NextHook == ValidateRestrictedFields \/ NarrowAgain

SpecHook == InitHook /\ [][NextHook]_vars

----------------------------------------------------------------------------
(* verify_field_types called with a candidate table of the caller's choice *)
(* on a record that has a single-record attribute `prop` and a list        *)
(* attribute `props`                                                       *)
(***************************************************************************)

\* OscalModel.verify_field_types
VerifyFieldTypes ==
    /\ hook_status = "none"
    /\ self # NoRecord
    /\ \E r \in { verify_field_types(self, allowed_field_types) } :
          /\ trials' = r.log
          /\ typed_fields' = [f \in r.changed |-> r.copy[f]]
          /\ hook_status' = IF r.ok THEN "narrowed" ELSE "narrowing_error"
          /\ self_after' = r.self_after
          /\ error_message' = r.message
          /\ narrow_runs' = narrow_runs + 1
    /\ UNCHANGED <<self, allowed_field_types, value_check, returned, value_vars,
                   class_field_values, class_field_types, two_vars>>

\* candidate tables: two entries for `prop` that are merged, one entry for
\* `props` only, a table with an entry for an attribute the record lacks, and
\* a table whose candidates include the base class of the property types
NarrowTables ==
    { << Rule2("prop", << "OscalPartProperty" >>,
               "props", << "OscalPartProperty", "OscalAssessmentMethodProperty" >>),
         Rule1("prop", << "OscalAssessmentMethodProperty" >>) >>,
      << Rule1("props", << "OscalPartProperty", "OscalAssessmentMethodProperty",
                           "RmfAssessmentMethodProperty" >>) >>,
      << Rule1("props", << "RmfAssessmentMethodProperty" >>),
         Rule1("links", << "OscalPartProperty" >>),
         Rule1("props", << "OscalAssessmentMethodProperty" >>) >>,
      << Rule2("prop", << "BaseProperty" >>,
               "props", << "OscalAssessmentMethodProperty", "BaseProperty" >>) >> }

\* the records: `prop` is None or a property, `props` is None or a list of
\* at most MaxChildren properties
NarrowRecords ==
    { [type |-> "OscalModel", prop |-> p, props |-> q] :
        p \in { Unset } \cup { Single(x) : x \in PropInstances },
        q \in UNION { OptionalList(l) : l \in SeqsUpTo(PropInstances, MaxChildren) } }

InitNarrow ==
    /\ ValuesIdle
    /\ self \in NarrowRecords
    /\ allowed_field_types \in NarrowTables
    /\ self_after = self
    /\ value_check = "none"
    /\ trials = << >>
    /\ typed_fields = NoFields
    /\ hook_status = "none"
    /\ returned = NoRecord
    /\ error_message = NoMessage
    /\ narrow_runs = 0
    /\ class_field_values = OscalModel_allowed_field_values
    /\ class_field_types = OscalModel_allowed_field_types
    /\ TwoIdle

NextNarrow == VerifyFieldTypes

SpecNarrow == InitNarrow /\ [][NextNarrow]_vars

----------------------------------------------------------------------------
(* Two hook calls on two records, running side by side.  A call is a        *)
(* sequence of steps: the allowed-value check, fetching the candidate      *)
(* table, merging it, narrowing one field after the other, returning.      *)
(* The validations of the nested records a step triggers build new records *)
(* from dumped data and are part of the step.                              *)
(***************************************************************************)

Threads == {1, 2}

\* the locals of the two calls kept in one place
locals_in_one_place(t) == 1

\* where the local variables of the call of thread t live
\* (flattened_restricted_fields, typed_fields, the loop position): in the
\* frame of the call
locals_of(t) == t

TwoTypes == {"StatementPart", "AssesmentMethodPart"}

\* the loop over the fields staying at the field it has just narrowed
same_field(k) == k

\* line 103: the for loop goes on to the next key of the merged table
next_field(k) == k + 1

\* the properties and nested parts of the two records
TwoProps ==
    { x \in PropInstances :
        /\ x.ns = OSCAL_NS
        /\ x.value = "TEST"
        /\ x.type \in {"BaseProperty", "OscalPartProperty"} }

TwoParts ==
    { x \in ChildParts :
        /\ x.name = "item"
        /\ x.ns = OSCAL_NS
        /\ x.parts # Unset => x.parts.items[1].name = "item" }

\* parts with one property and at most one nested part
TwoRecords ==
    { [type |-> T, name |-> n, ns |-> OSCAL_NS, props |-> List(<< p >>), parts |-> q] :
        T \in TwoTypes, n \in {"statement", "assessment-method"}, p \in TwoProps,
        q \in { Unset } \cup { List(<< c >>) : c \in TwoParts } }

\* lines 103-150 for one field: the narrowing of that field of obj
narrow_one_field(obj, flattened, field) ==
    verify_fields_from(obj, obj, flattened, << field >>, 1)

\* the merged candidate tables of the types of the two records
TwoFlattened ==
    [ T \in TwoTypes |-> flattened_restricted_fields(get_allowed_field_types(T)) ]

\* the records as a call holds them once one of their fields has been narrowed
TwoRecordsNarrowedOnce ==
    UNION { { narrow_one_field(x, TwoFlattened[x.type], f).self_after :
                f \in DOMAIN TwoFlattened[x.type] } : x \in TwoRecords }

\* the narrowings of one field the two calls can come to, computed once
TwoNarrowings ==
    [ c \in { << x, f >> : x \in TwoRecords \cup TwoRecordsNarrowedOnce,
                           f \in {"props", "parts"} } |->
        narrow_one_field(c[1], TwoFlattened[c[1].type], c[2]) ]

\* narrow_one_field, looked up where it has been computed before
narrow_field(obj, flattened, field) ==
    IF obj.type \in TwoTypes
       /\ flattened = TwoFlattened[obj.type]
       /\ << obj, field >> \in DOMAIN TwoNarrowings
    THEN TwoNarrowings[<< obj, field >>]
    ELSE narrow_one_field(obj, flattened, field)

\* the possible results of the allowed-value check of the records, one for
\* each set of groups the partitioning can return
TwoValueChecks ==
    [ x \in TwoRecords |->
        { value_check_of(x, groups) :
            groups \in get_restricted_field_set_dict(get_allowed_field_values(x.type)) } ]

\* the possible results of verify_allowed_values on obj
value_checks(obj) ==
    IF obj \in DOMAIN TwoValueChecks THEN TwoValueChecks[obj]
    ELSE { value_check_of(obj, groups) :
             groups \in get_restricted_field_set_dict(get_allowed_field_values(obj.type)) }

\* a call that has ended
ended(v, status, rec, message) ==
    [v EXCEPT !.pc = "done", !.status = status, !.returned = rec, !.message = message,
              !.steps = @ + 1]

\* lines 306-311: the allowed-value check of the record of thread t
TwoVerifyAllowedValues(t) ==
    /\ validations[t].pc = "start"
    /\ \E check \in value_checks(validations[t].self) :
             validations' =
                [validations EXCEPT ![t] =
                    IF check = "Invalid"
                    THEN ended([@ EXCEPT !.check = check], "value_error",
                               NoRecord, NoMessage)
                    ELSE [@ EXCEPT !.check = check, !.pc = "values_checked",
                                   !.steps = @ + 1]]
    /\ UNCHANGED <<frames, type_tables, value_vars, hook_vars>>

\* lines 313-317: cls.get_allowed_field_types() and the test of its length
TwoGetAllowedFieldTypes(t) ==
    /\ validations[t].pc = "values_checked"
    /\ IF Len(type_tables[validations[t].self.type]) > 0
       THEN /\ validations' = [validations EXCEPT ![t].pc = "merging",
                                                   ![t].steps = @ + 1]
            /\ frames' = [frames EXCEPT ![locals_of(t)].allowed_subfields =
                                           type_tables[validations[t].self.type]]
       ELSE /\ validations' =
                  [validations EXCEPT ![t] =
                      ended(@, "returned_self", validations[t].self, NoMessage)]
            /\ UNCHANGED frames
    /\ UNCHANGED <<type_tables, value_vars, hook_vars>>

\* lines 89-100: the merge of the candidate entries
TwoMerge(t) ==
    /\ validations[t].pc = "merging"
    /\ frames' =
          [frames EXCEPT ![locals_of(t)] =
              [allowed_subfields |-> merged_in_place(@.allowed_subfields),
               flattened |-> flattened_restricted_fields(@.allowed_subfields),
               order |-> field_order(@.allowed_subfields),
               k |-> 1,
               typed_fields |-> NoFields]]
    /\ type_tables' =
          [type_tables EXCEPT ![validations[t].self.type] =
              table_after_call(
                  @, merged_in_place(frames[locals_of(t)].allowed_subfields))]
    /\ validations' = [validations EXCEPT ![t].pc = "narrowing", ![t].steps = @ + 1]
    /\ UNCHANGED <<value_vars, hook_vars>>

\* lines 103-150 for one field of the merged table
TwoNarrowField(t) ==
    /\ validations[t].pc = "narrowing"
    /\ frames[locals_of(t)].k <= Len(frames[locals_of(t)].order)
    /\ \E r \in { narrow_field(
                     validations[t].self, frames[locals_of(t)].flattened,
                     frames[locals_of(t)].order[frames[locals_of(t)].k]) } :
          IF r.ok
          THEN /\ validations' =
                     [validations EXCEPT ![t].self = r.self_after,
                                         ![t].trials = @ \o r.log,
                                         ![t].steps = @ + 1]
               /\ frames' =
                     [frames EXCEPT
                         ![locals_of(t)].k = next_field(@),
                         ![locals_of(t)].typed_fields =
                             [ f \in DOMAIN @ \cup r.changed |->
                                 IF f \in r.changed THEN r.copy[f] ELSE @[f] ]]
          ELSE /\ validations' =
                     [validations EXCEPT ![t] =
                         ended([@ EXCEPT !.trials = @ \o r.log],
                               "narrowing_error", NoRecord, r.message)]
               /\ UNCHANGED frames
    /\ UNCHANGED <<type_tables, value_vars, hook_vars>>

\* lines 319-326: a copy with the narrowed fields, or self
TwoReturn(t) ==
    /\ validations[t].pc = "narrowing"
    /\ frames[locals_of(t)].k > Len(frames[locals_of(t)].order)
    /\ validations' =
          [validations EXCEPT ![t] =
              IF DOMAIN frames[locals_of(t)].typed_fields # {}
              THEN ended(@, "returned_copy",
                         [ f \in DOMAIN @.self |->
                             IF f \in DOMAIN frames[locals_of(t)].typed_fields
                             THEN frames[locals_of(t)].typed_fields[f]
                             ELSE @.self[f] ],
                         NoMessage)
              ELSE ended(@, "returned_self", @.self, NoMessage)]
    /\ UNCHANGED <<frames, type_tables, value_vars, hook_vars>>

NoFrame ==
    [allowed_subfields |-> << >>, flattened |-> << >>, order |-> << >>, k |-> 0,
     typed_fields |-> NoFields]

\* the hook has been called on a record of A and on a record of B
TwoStart(A, B) ==
    /\ ValuesIdle
    /\ HookIdle
    /\ \E a \in A, b \in B :
          validations =
             [ t \in Threads |->
                 [pc |-> "start", self_at_call |-> IF t = 1 THEN a ELSE b,
                  self |-> IF t = 1 THEN a ELSE b, check |-> "none",
                  status |-> "none", returned |-> NoRecord, message |-> NoMessage,
                  trials |-> << >>, steps |-> 0] ]
    /\ frames = [ t \in Threads |-> NoFrame ]
    /\ type_tables = [ T \in TwoTypes |-> get_allowed_field_types(T) ]

InitTwo == TwoStart(TwoRecords, TwoRecords)

\* the records whose properties can be narrowed and that hold no nested part
SecondRecords ==
    { x \in TwoRecords :
        /\ x.parts = Unset
        /\ x.props.items[1].type = "BaseProperty"
        /\ x.props.items[1].name = "label" }

InitTwoLive == TwoStart(TwoRecords, SecondRecords)

NextTwo ==
    \E t \in Threads :
        \/ TwoVerifyAllowedValues(t)
        \/ TwoGetAllowedFieldTypes(t)
        \/ TwoMerge(t)
        \/ TwoNarrowField(t)
        \/ TwoReturn(t)

SpecTwo == InitTwo /\ [][NextTwo]_vars

\* each call is run on by the interpreter as long as it has a step to take
SpecTwoLive ==
    /\ InitTwoLive
    /\ [][NextTwo]_vars
    /\ \A t \in Threads :
          WF_vars(\/ TwoVerifyAllowedValues(t)
                  \/ TwoGetAllowedFieldTypes(t)
                  \/ TwoMerge(t)
                  \/ TwoNarrowField(t)
                  \/ TwoReturn(t))

----------------------------------------------------------------------------
(* Properties of the allowed-value check *)

\* a run of verify_allowed_values that went past the early return
GroupsComputed == outcome # "none" /\ DOMAIN restricted_field_set_dict # {}

\* every field of rule i matches the record (AND within a rule)
rule_satisfied(object_dict, allowed_values_list, i) ==
    \A field \in DOMAIN allowed_values_list[i] :
        field_matches(object_dict, allowed_values_list[i], field)

\* at least one rule scoped to the group is satisfied (OR across rules)
group_satisfied(object_dict, allowed_values_list, restricted_field_set) ==
    \E i \in allowed_values_to_check(allowed_values_list, restricted_field_set) :
        rule_satisfied(object_dict, allowed_values_list, i)

\* C1: a group is satisfied if and only if at least one rule scoped to it has
\* every one of its fields matching the record (AND within a rule, OR across
\* the rules of the group); so with [{a:[1,2]}, {a:[3], b:[4]}] the record
\* a=5, b=4 is Invalid.
C1_GroupSatisfiedIffSomeRuleFullyMatches ==
    GroupsComputed =>
        \A g \in DOMAIN restricted_field_set_dict :
            restricted_field_set_dict[g]
                <=> group_satisfied(this_object_dict, allowed_values, g)

\* C2: for the resource property rules and the OSCAL namespace, name=type with
\* value=logo is Valid, name=type with value=bogus is Invalid and the error
\* lists the second rule, name=version with value=9 is Valid.
C2_ResourcePropertyScenario ==
    ( /\ outcome # "none"
      /\ allowed_values = OscalResourceProperty_allowed_field_values
      /\ this_object_dict["ns"] = OSCAL_NS )
    => /\ ( this_object_dict["name"] = "type" /\ this_object_dict["value"] = "logo" )
            => outcome = "Valid"
       /\ ( this_object_dict["name"] = "type" /\ this_object_dict["value"] = "bogus" )
            => ( outcome = "Invalid" /\ value_error_listing[2] >= 1 )
       /\ ( this_object_dict["name"] = "version" /\ this_object_dict["value"] = "9" )
            => outcome = "Valid"

\* a field that every rule mentioning it constrains alone
standalone_field(allowed_values_list, f) ==
    /\ f \in flatten_allowed_value_keys_lists(allowed_values_list)
    /\ \A i \in 1..Len(allowed_values_list) :
          f \in DOMAIN allowed_values_list[i] => DOMAIN allowed_values_list[i] = {f}

\* the value of field f is in the list of no rule over f
standalone_unmatched(object_dict, allowed_values_list, f) ==
    \A i \in 1..Len(allowed_values_list) :
        f \in DOMAIN allowed_values_list[i]
            => ~ field_matches(object_dict, allowed_values_list[i], f)

RECURSIVE co_occurrence_closure(_, _)
co_occurrence_closure(allowed_values_list, S) ==
    LET N == S \cup UNION { DOMAIN allowed_values_list[i] :
                             i \in { j \in 1..Len(allowed_values_list) :
                                       DOMAIN allowed_values_list[j] \cap S # {} } }
    IN IF N = S THEN S ELSE co_occurrence_closure(allowed_values_list, N)

\* the connected components of the field co-occurrence graph
connected_components(allowed_values_list) ==
    { co_occurrence_closure(allowed_values_list, {f}) :
        f \in flatten_allowed_value_keys_lists(allowed_values_list) }

\* C4: the groups are exactly the connected components of the graph whose
\* nodes are the rule fields and whose edges join fields of the same rule; a
\* rule over {name, value} and one over {name, class} give the single group
\* {name, value, class}.
C4_GroupsAreConnectedComponents ==
    GroupsComputed =>
        DOMAIN restricted_field_set_dict = connected_components(allowed_values)

\* C5: every rule field belongs to exactly one group: the groups are pairwise
\* disjoint and together cover all rule fields.
C5_GroupsPartitionTheFields ==
    GroupsComputed =>
        /\ UNION (DOMAIN restricted_field_set_dict)
              = flatten_allowed_value_keys_lists(allowed_values)
        /\ \A g \in DOMAIN restricted_field_set_dict :
              \A h \in DOMAIN restricted_field_set_dict :
                 g # h => g \cap h = {}

\* the rule lists that hold the same rules in another order
Reorderings(allowed_values_list) ==
    LET n == Len(allowed_values_list)
    IN { [i \in 1..n |-> allowed_values_list[p[i]]] :
           p \in { q \in [1..n -> 1..n] : \A i, j \in 1..n : q[i] = q[j] => i = j } }

\* C6: the set of groups is the same for every permutation of the rule list.
C6_GroupsIndependentOfRuleOrder ==
    GroupsComputed =>
        \A reordered \in Reorderings(allowed_values) :
            \A groups \in get_restricted_field_set_dict(reordered) :
                groups = DOMAIN restricted_field_set_dict

\* C7: two runs on the same record and the same rule list give the same
\* outcome: both accept, or both reject listing the same rules.
C7_RepeatedRunsAgree ==
    prev_outcome # "none" =>
        /\ outcome = prev_outcome
        /\ value_error_listing = prev_listing

----------------------------------------------------------------------------
(* Properties of the validation hook and of the narrowing *)

\* the merged candidate lists of the type of obj
candidates_of(obj) == flattened_restricted_fields(get_allowed_field_types(obj.type))

\* the records held by a field value, in order
items_of(v) ==
    CASE v.kind = "unset" -> << >>
      [] v.kind = "single" -> << v.item >>
      [] v.kind = "list" -> v.items

\* every value of every candidate-restricted field has a candidate type
AllAlreadyTyped(obj) ==
    \A field \in DOMAIN candidates_of(obj) :
        \A i \in 1..Len(items_of(field_value(obj, field))) :
            InList(items_of(field_value(obj, field))[i].type, candidates_of(obj)[field])

\* C8: the hook runs the allowed-value check before the narrowing: when the
\* check fails the hook raises, no trial validation has been attempted and no
\* field of the record has been replaced; trial validations happen only on
\* records that passed the allowed-value check.
C8_ValueCheckBeforeNarrowing ==
    /\ value_check = "Invalid" =>
          /\ hook_status = "value_error"
          /\ returned = NoRecord
          /\ trials = << >>
          /\ DOMAIN typed_fields = {}
          /\ self_after = self
    /\ hook_status = "value_error" => value_check = "Invalid"
    /\ ( trials # << >> \/ DOMAIN typed_fields # {} \/ self_after # self )
          => value_check \in {"skipped", "Valid"}

\* C8 witness: the hook raised on the allowed-value check for a record that
\* holds a property the narrowing would have had to re-type
C8_Witness ==
    /\ hook_status = "value_error"
    /\ self.props.kind = "list"
    /\ \E i \in 1..Len(self.props.items) : self.props.items[i].type = "BaseProperty"

\* C9: narrowing is idempotent.  If every value of every candidate-restricted
\* field already has a candidate type, verify_field_types makes no trial
\* validation, raises nothing and reports no change; and narrowing the record
\* a successful first run produced reports no change.
C9_NarrowingIdempotent ==
    /\ ( narrow_runs = 1 /\ AllAlreadyTyped(self) ) =>
          /\ hook_status = "returned_self"
          /\ trials = << >>
          /\ DOMAIN typed_fields = {}
          /\ returned = self
          /\ self_after = self
    /\ narrow_runs = 2 =>
          /\ hook_status = "unchanged_again"
          /\ trials = << >>
          /\ DOMAIN typed_fields = {}
          /\ AllAlreadyTyped(returned)

\* C9 witness: a second narrowing pass over a record whose first pass
\* re-typed a child
C9_Witness ==
    /\ narrow_runs = 2
    /\ hook_status = "unchanged_again"
    /\ returned # self
    /\ ~ AllAlreadyTyped(self)

\* the trial log entries of one element of one field
trials_of(field, index) ==
    SelectSeq(trials, LAMBDA e : e.field = field /\ e.index = index)

\* element i of the narrowed field is what the first validating candidate built
NarrowedToFirstMatch(field, i) ==
    LET old == self[field].items[i]
        new == typed_fields[field].items[i]
        types_to_check == candidates_of(self)[field]
        data == model_dump(old)
    IN IF InList(old.type, types_to_check)
       THEN new = old /\ trials_of(field, i) = << >>
       ELSE \E k \in 1..Len(types_to_check) :
               /\ model_validate(types_to_check[k], data).ok
               /\ \A j \in 1..(k - 1) : ~ model_validate(types_to_check[j], data).ok
               /\ new.type = types_to_check[k]
               /\ new = model_validate(types_to_check[k], data).rec
               /\ trials_of(field, i) =
                     [ j \in 1..k |-> [field |-> field, index |-> i,
                                       type |-> types_to_check[j], ok |-> (j = k)] ]

\* C10: a value that is not of a candidate type is tried against the
\* candidates in list order and replaced by an instance of the first candidate
\* that validates its dumped data (with candidates [TypeA, TypeB] both
\* validating, always TypeA); a generic part that satisfies the rules of a
\* candidate part type comes back as an instance of that type.
C10_FirstValidatingCandidateWins ==
    ( narrow_runs = 1 /\ hook_status = "returned_copy" ) =>
        \A field \in DOMAIN typed_fields :
            /\ Len(typed_fields[field].items) = Len(self[field].items)
            /\ \A i \in 1..Len(self[field].items) : NarrowedToFirstMatch(field, i)

\* C10 witness: a generic property whose data validates as the first and as
\* the second candidate of props has been narrowed to the first
C10_Witness ==
    /\ narrow_runs = 1
    /\ hook_status = "returned_copy"
    /\ "props" \in DOMAIN typed_fields
    /\ \E i \in 1..Len(self.props.items) :
          /\ self.props.items[i].type = "BaseProperty"
          /\ model_validate("OscalPartProperty", model_dump(self.props.items[i])).ok
          /\ model_validate("OscalAssessmentMethodProperty",
                            model_dump(self.props.items[i])).ok
          /\ typed_fields.props.items[i].type = "OscalPartProperty"

----------------------------------------------------------------------------
(* The errors of the narrowing *)

RECURSIVE concat_lists(_, _, _)
concat_lists(tables, field, k) ==
    IF k = 0 THEN << >>
    ELSE concat_lists(tables, field, k - 1)
         \o ( IF field \in DOMAIN tables[k] THEN tables[k][field] ELSE << >> )

\* the candidate lists of all entries for the field, one after the other
merged_candidates(tables, field) == concat_lists(tables, field, Len(tables))

\* the fields the candidate tables mention
candidate_fields(tables) == UNION { DOMAIN tables[k] : k \in 1..Len(tables) }

\* the record is not of one of the types and its data validates as none of them
validates_as_none(item, types) ==
    /\ ~ InList(item.type, types)
    /\ \A k \in 1..Len(types) : ~ model_validate(types[k], model_dump(item)).ok

\* some value of the field of obj can be given none of the candidate types
cannot_be_narrowed(obj, tables, field) ==
    \E i \in 1..Len(items_of(field_value(obj, field))) :
        validates_as_none(items_of(field_value(obj, field))[i],
                          merged_candidates(tables, field))

\* C11: if a value of a candidate-restricted field, a single record or an
\* element of a list, is not of a candidate type and validates as none of the
\* candidates, verify_field_types raises an error that names that field and
\* the full merged candidate list of the field; it raises in no other case.
C11_NarrowingErrorNamesFieldAndCandidates ==
    narrow_runs = 1 =>
        /\ ( \E field \in candidate_fields(allowed_field_types) :
                cannot_be_narrowed(self, allowed_field_types, field) )
              <=> hook_status = "narrowing_error"
        /\ hook_status = "narrowing_error" =>
              /\ error_message.field \in candidate_fields(allowed_field_types)
              /\ cannot_be_narrowed(self, allowed_field_types, error_message.field)
              /\ error_message.types =
                    merged_candidates(allowed_field_types, error_message.field)
              /\ DOMAIN typed_fields = {}

\* C11 witness: the single record of `prop` validated as neither of the two
\* candidates merged from two entries, and the error names both
C11_Witness ==
    /\ hook_status = "narrowing_error"
    /\ error_message.field = "prop"
    /\ self.prop.kind = "single"
    /\ error_message.types = << "OscalPartProperty", "OscalAssessmentMethodProperty" >>
    /\ Len(trials) = 2

\* the error of a list field: an element of `props` validated as none
C11_ListFieldError ==
    /\ hook_status = "narrowing_error"
    /\ error_message.field = "props"
    /\ Len(self.props.items) = 2

\* C12: narrowing a list field is all or nothing.  When an element of a list
\* field validates as none of the candidates the narrowing fails, the hook
\* returns no record and no narrowed field, and the list of that field holds
\* the records it held before, also where earlier elements had validated.
C12_ListNarrowingAllOrNothing ==
    narrow_runs = 1 =>
        /\ \A field \in candidate_fields(allowed_field_types) :
              ( /\ field_value(self, field).kind = "list"
                /\ cannot_be_narrowed(self, allowed_field_types, field) )
              => hook_status = "narrowing_error"
        /\ hook_status = "narrowing_error" =>
              /\ field_value(self, error_message.field).kind = "list"
              /\ field_value(self_after, error_message.field) =
                    field_value(self, error_message.field)
              /\ returned = NoRecord
              /\ DOMAIN typed_fields = {}

\* C12 witness: the first element of the list validated as a candidate, the
\* second as none, and the list is as it was
C12_Witness ==
    /\ hook_status = "narrowing_error"
    /\ error_message.field = "props"
    /\ \E j \in 1..Len(trials) :
          trials[j].field = "props" /\ trials[j].index = 1 /\ trials[j].ok
    /\ self.props.items[1].type = "BaseProperty"
    /\ self_after.props = self.props

----------------------------------------------------------------------------
(* Rules of derived types *)

\* verify_allowed_values raises for the record under this rule list, whatever
\* groups the partitioning returns
rejects(object_dict, allowed_values_list) ==
    /\ restricted_fields_in_this_object(object_dict, allowed_values_list) # {}
    /\ \A groups \in get_restricted_field_set_dict(allowed_values_list) :
          \E g \in groups : ~ group_flag(object_dict, allowed_values_list, g)

\* the rule list of the parent: what follows the first k rules, the type's own
parent_rules(allowed_values_list, k) ==
    SubSeq(allowed_values_list, k + 1, Len(allowed_values_list))

\* C13: composition is additive.  The rule list of a derived type is its own
\* rules followed by the list of its parent; a record the parent's list
\* rejects is rejected under the derived type's list as well, also when a rule
\* of the derived type over the same field is satisfied.
C13_CompositionIsAdditive ==
    outcome # "none" =>
        \A k \in 1..(Len(allowed_values) - 1) :
            rejects(this_object_dict, parent_rules(allowed_values, k))
                => outcome = "Invalid"

\* C14: the rule list of a type is its own rules followed by the list of its
\* parent, up to the root.  For the marking property this is
\* [{name: [marking]}, {ns: [OSCAL namespace]}], and a marking property is
\* accepted exactly when its name is marking and its namespace is the OSCAL
\* namespace.
C14_MarkingPropertyRules ==
    /\ OscalMarkingProperty_allowed_field_values =
          << Rule1("name", <<"marking">>), Rule1("ns", <<OSCAL_NS>>) >>
    /\ OscalResourceProperty_allowed_field_values[4] = Rule1("ns", <<OSCAL_NS>>)
    /\ ( allowed_values = OscalMarkingProperty_allowed_field_values
          /\ outcome # "none" ) =>
          ( outcome = "Valid" <=> ( /\ this_object_dict["name"] = "marking"
                                    /\ this_object_dict["ns"] = OSCAL_NS ) )

\* C14 witness: a property named marking in another namespace was rejected
C14_Witness ==
    /\ allowed_values = OscalMarkingProperty_allowed_field_values
    /\ this_object_dict["name"] = "marking"
    /\ this_object_dict["ns"] = RMF_NS
    /\ outcome = "Invalid"

----------------------------------------------------------------------------
(* Unset fields *)

\* every field of rule i is None in the record, or missing from it
rule_unset(object_dict, allowed_values_list, i) ==
    \A field \in DOMAIN allowed_values_list[i] :
        field \in DOMAIN object_dict => object_dict[field] = None

\* C15: a rule whose fields are unset in the record never counts as matching,
\* but it does not make its group fail: the flag of a group is set exactly by
\* the rules that have a field set, a group with a satisfied rule is
\* satisfied whatever its other rules, and a group whose rules are all unset
\* fails.
C15_UnsetRuleDoesNotMatch ==
    GroupsComputed =>
        \A g \in DOMAIN restricted_field_set_dict :
            /\ restricted_field_set_dict[g] <=>
                  \E i \in allowed_values_to_check(allowed_values, g) :
                      /\ ~ rule_unset(this_object_dict, allowed_values, i)
                      /\ \E field \in DOMAIN allowed_values[i] \cap DOMAIN this_object_dict :
                            /\ this_object_dict[field] # None
                            /\ InList(this_object_dict[field], allowed_values[i][field])
            /\ group_satisfied(this_object_dict, allowed_values, g)
                  => restricted_field_set_dict[g]
            /\ ( \A i \in allowed_values_to_check(allowed_values, g) :
                    rule_unset(this_object_dict, allowed_values, i) )
                  => ( ~ restricted_field_set_dict[g] /\ outcome = "Invalid" )

\* C15 witness: a group with a rule whose fields are all unset and another
\* rule that is satisfied passed the check
C15_Witness ==
    /\ GroupsComputed
    /\ outcome = "Valid"
    /\ \E g \in DOMAIN restricted_field_set_dict :
          \E i, j \in allowed_values_to_check(allowed_values, g) :
              /\ rule_unset(this_object_dict, allowed_values, i)
              /\ rule_satisfied(this_object_dict, allowed_values, j)

----------------------------------------------------------------------------
(* Rules on fields the type does not declare *)

\* the fields the rules name that the dumped record does not have
undeclared_fields(object_dict, allowed_values_list) ==
    flatten_allowed_value_keys_lists(allowed_values_list) \ DOMAIN object_dict

\* C16: a rule that names a field the record type does not declare is
\* refused when the type is defined: no instance of such a type is accepted
\* with the rule left out of the check (as for the telephone number, whose
\* rule is on a field `ns` it does not declare).
C16_UndeclaredFieldIsDeclarationError ==
    undeclared_fields(this_object_dict, allowed_values) # {} => outcome # "Valid"

----------------------------------------------------------------------------
(* Failures of nested records *)

\* the part satisfies the rules of StatementItemPart, its properties can be
\* given a candidate type, and so for every part nested below it
RECURSIVE is_statement_item(_)
is_statement_item(part) ==
    /\ part.name = "item"
    /\ part.ns = OSCAL_NS
    /\ \A i \in 1..Len(items_of(part.props)) :
          ~ validates_as_none(items_of(part.props)[i],
                              merged_candidates(StatementItemPart_allowed_field_types,
                                                "props"))
    /\ \A i \in 1..Len(items_of(part.parts)) :
          is_statement_item(items_of(part.parts)[i])

\* C17: a failure inside a child fails the parent.  When an element of a
\* candidate-restricted list validates as none of the candidates, the hook
\* raises and returns no record; in particular a statement or statement-item
\* part is rejected when a part nested in it, at any depth, is not a valid
\* statement-item part.
C17_ChildFailureFailsParent ==
    ( hook_status # "none" /\ narrow_runs <= 1 /\ value_check # "Invalid" ) =>
        /\ ( \E field \in candidate_fields(allowed_field_types) :
                cannot_be_narrowed(self, allowed_field_types, field) )
              => ( hook_status = "narrowing_error" /\ returned = NoRecord )
        /\ ( /\ self.type \in {"StatementPart", "StatementItemPart"}
             /\ \E i \in 1..Len(items_of(self.parts)) :
                   ~ is_statement_item(items_of(self.parts)[i]) )
              => ( hook_status = "narrowing_error" /\ returned = NoRecord )

\* C17 witness: a statement-item part was rejected because the part nested in
\* its nested part is not a statement item
C17_Witness ==
    /\ self.type = "StatementItemPart"
    /\ hook_status = "narrowing_error"
    /\ error_message.field = "parts"
    /\ \E i \in 1..Len(items_of(self.parts)) :
          LET child == items_of(self.parts)[i]
          IN /\ child.name = "item"
             /\ child.ns = OSCAL_NS
             /\ \E j \in 1..Len(items_of(child.parts)) :
                   items_of(child.parts)[j].name = "statement"

----------------------------------------------------------------------------
(* The error of the allowed-value check *)

\* the groups of the rule list that no rule satisfies
unsatisfied_groups(object_dict, allowed_values_list) ==
    { g \in connected_components(allowed_values_list) :
        ~ group_satisfied(object_dict, allowed_values_list, g) }

\* C18: the error of a rejected record reports all failures at once: it lists
\* every rule that is a candidate for an unsatisfied group, for all the
\* unsatisfied groups, and no rule that is a candidate of satisfied groups
\* only.
C18_ErrorListsAllUnsatisfiedGroups ==
    outcome = "Invalid" =>
        \A i \in 1..Len(allowed_values) :
            value_error_listing[i] >= 1
                <=> \E g \in unsatisfied_groups(this_object_dict, allowed_values) :
                       DOMAIN allowed_values[i] \subseteq g

\* the error lists the rules scoped to the groups the check left unflagged
ErrorListsRulesOfUnflaggedGroups ==
    outcome = "Invalid" =>
        \A i \in 1..Len(allowed_values) :
            value_error_listing[i] >= 1
                <=> \E g \in DOMAIN restricted_field_set_dict :
                       /\ ~ restricted_field_set_dict[g]
                       /\ DOMAIN allowed_values[i] \subseteq g

----------------------------------------------------------------------------
(* Unrestricted records *)

\* C19: when no field of the record is mentioned by a rule, also when the
\* type has no rules at all, the allowed-value check accepts the record
\* without computing groups (and groups are computed in no other case than a
\* mentioned field); the hook returns a record of a type with no rules and no
\* candidate lists as it is.
C19_UnrestrictedRecordAccepted ==
    hook_status # "none" =>
        /\ ( DOMAIN scalar_dump(self)
                \cap flatten_allowed_value_keys_lists(get_allowed_field_values(self.type))
             = {} )
              <=> ( /\ value_check \in {"skipped", "Valid"}
                    /\ DOMAIN restricted_field_set_dict = {}
                    /\ value_error_listing = NoListing )
        /\ get_allowed_field_values(self.type) = << >> =>
              ( value_check = "skipped" /\ calls = 0 )
        /\ ( /\ get_allowed_field_values(self.type) = << >>
             /\ get_allowed_field_types(self.type) = << >> )
              => /\ hook_status = "returned_self"
                 /\ returned = self
                 /\ self_after = self
                 /\ trials = << >>
                 /\ narrow_runs = 0

\* C19 witness: a telephone number, whose rule mentions none of its fields,
\* was accepted with no group computed and returned as it is
C19_Witness ==
    /\ self.type = "TelephoneNumber"
    /\ self.phone_type = "fax"
    /\ value_check = "Valid"
    /\ calls = 1
    /\ DOMAIN restricted_field_set_dict = {}
    /\ hook_status = "returned_self"
    /\ returned = self

----------------------------------------------------------------------------
(* The narrowed list *)

\* C20: narrowing preserves the list.  After a successful narrowing the list
\* of a narrowed field has the length it had, an element that already had a
\* candidate type is the same record at the same position, and a replaced
\* element has a candidate type and the data of the element that was at its
\* position; the list the record holds is the narrowed list.
C20_NarrowingPreservesTheList ==
    ( narrow_runs = 1 /\ hook_status = "returned_copy" ) =>
        \A field \in DOMAIN typed_fields :
            LET old == self[field].items
                new == typed_fields[field].items
                types == merged_candidates(allowed_field_types, field)
            IN /\ Len(new) = Len(old)
               /\ returned[field].items = new
               /\ self_after[field].items = new
               /\ \A i \in 1..Len(old) :
                     IF InList(old[i].type, types)
                     THEN new[i] = old[i]
                     ELSE /\ InList(new[i].type, types)
                          /\ model_dump(new[i]) = model_dump(old[i])

\* C20 witness: of two different properties the first already had a
\* candidate type and stayed, the second was replaced in its place
C20_Witness ==
    /\ narrow_runs = 1
    /\ hook_status = "returned_copy"
    /\ "props" \in DOMAIN typed_fields
    /\ Len(self.props.items) = 2
    /\ self.props.items[1].type = "OscalAssessmentMethodProperty"
    /\ self.props.items[2].type = "BaseProperty"
    /\ self.props.items[2].name = "label"
    /\ typed_fields.props.items[1] = self.props.items[1]
    /\ typed_fields.props.items[2].type = "OscalPartProperty"

----------------------------------------------------------------------------
(* The mapping of the narrowed fields and the record the hook returns *)

\* the candidate-restricted fields of obj holding a value whose type is not
\* one of the field's candidates
fields_to_retype(obj, tables) ==
    { field \in candidate_fields(tables) :
        \E i \in 1..Len(items_of(field_value(obj, field))) :
            ~ InList(items_of(field_value(obj, field))[i].type,
                     merged_candidates(tables, field)) }

\* C21: when the hook returns, the mapping of verify_field_types holds
\* exactly the fields in which at least one value was re-typed: a field that
\* is unset, holds only values of a candidate type or holds an empty list is
\* not in it.  With an empty mapping the hook returns the very record it was
\* called on; otherwise it returns a copy of the same type that differs from
\* that record in the fields of the mapping and in no other field.
C21_MappingHoldsExactlyTheRetypedFields ==
    ( hook_status \in {"returned_self", "returned_copy"} /\ narrow_runs <= 1 ) =>
        /\ DOMAIN typed_fields = fields_to_retype(self, allowed_field_types)
        /\ IF DOMAIN typed_fields = {}
           THEN hook_status = "returned_self" /\ returned = self
           ELSE /\ hook_status = "returned_copy"
                /\ DOMAIN returned = DOMAIN self
                /\ \A f \in DOMAIN self :
                      IF f \in DOMAIN typed_fields
                      THEN returned[f] = typed_fields[f] /\ returned[f] # self[f]
                      ELSE returned[f] = self[f]

\* C21 witness: the properties were re-typed while the parts, which already
\* had the candidate type, were not; only `props` is in the mapping
C21_Witness ==
    /\ hook_status = "returned_copy"
    /\ narrow_runs = 1
    /\ self.type = "StatementPart"
    /\ self.parts.kind = "list"
    /\ Len(self.parts.items) = 1
    /\ self.parts.items[1].type = "StatementItemPart"
    /\ self.props.kind = "list"
    /\ Len(self.props.items) = 1
    /\ DOMAIN typed_fields = {"props"}
    /\ returned.parts = self.parts
    /\ returned.props # self.props

\* C21 witness of the empty mapping: an unset field and an empty list
C21_WitnessEmpty ==
    /\ hook_status = "returned_self"
    /\ narrow_runs = 1
    /\ self.props = Unset
    /\ self.parts = List(<< >>)
    /\ typed_fields = NoFields
    /\ returned = self

----------------------------------------------------------------------------
(* Candidate entries of a type and of its ancestors for the same field *)

\* the entries a type declares itself: its table without its parent's
own_field_types(T) ==
    SubSeq(get_allowed_field_types(T), 1,
           Len(get_allowed_field_types(T)) - Len(get_allowed_field_types(parent_type(T))))

\* every value of the field that is not of a candidate type validates as one
\* of the given candidates
can_be_narrowed(obj, field, types) ==
    \A i \in 1..Len(items_of(field_value(obj, field))) :
        \/ InList(items_of(field_value(obj, field))[i].type, types)
        \/ \E k \in 1..Len(types) :
              model_validate(types[k], model_dump(items_of(field_value(obj, field))[i])).ok

\* C22: the candidate list the narrowing uses for a field is the
\* concatenation of the lists of all entries naming the field, the type's own
\* entries before its ancestors': it is the type's own list followed by the
\* list its parent uses.  No ancestor candidate is lost: when every value
\* validates as some candidate of that list, an ancestor's included, the
\* narrowing succeeds, every value ends up with a type of the list, and the
\* trials of a value follow the list from its start; an error names the list.
C22_CandidatesOfAncestorsAreKept ==
    ( narrow_runs = 1 /\ self.type # "OscalModel" ) =>
        LET tables == get_allowed_field_types(self.type)
            inherited == get_allowed_field_types(parent_type(self.type))
            merged(field) == merged_candidates(own_field_types(self.type), field)
                             \o merged_candidates(inherited, field)
        IN /\ allowed_field_types = tables
           /\ tables = own_field_types(self.type) \o inherited
           /\ candidate_fields(tables) =
                 candidate_fields(own_field_types(self.type)) \cup candidate_fields(inherited)
           /\ ( \A field \in candidate_fields(tables) :
                    can_be_narrowed(self, field, merged(field)) )
                 <=> hook_status \in {"returned_self", "returned_copy"}
           /\ hook_status = "narrowing_error" =>
                 error_message.types = merged(error_message.field)
           /\ \A field \in candidate_fields(tables) :
                 \A i \in 1..Len(items_of(field_value(self, field))) :
                    /\ Len(trials_of(field, i)) <= Len(merged(field))
                    /\ \A j \in 1..Len(trials_of(field, i)) :
                          trials_of(field, i)[j].type = merged(field)[j]
                    /\ hook_status \in {"returned_self", "returned_copy"} =>
                          InList(returned[field].items[i].type, merged(field))

\* C22 witness: a property of an assessment-method part validated as the
\* second candidate of the merged list only, which the base part declares,
\* after the part's own candidate had been tried
C22_Witness ==
    /\ narrow_runs = 1
    /\ hook_status = "returned_copy"
    /\ self.type = "AssesmentMethodPart"
    /\ merged_candidates(allowed_field_types, "props") =
          << "OscalAssessmentMethodProperty", "OscalPartProperty",
             "OscalAssessmentMethodProperty", "RmfAssessmentMethodProperty" >>
    /\ "props" \in DOMAIN typed_fields
    /\ self.props.items[1].type = "BaseProperty"
    /\ self.props.items[1].name = "label"
    /\ trials_of("props", 1) =
          << [field |-> "props", index |-> 1,
              type |-> "OscalAssessmentMethodProperty", ok |-> FALSE],
             [field |-> "props", index |-> 1, type |-> "OscalPartProperty", ok |-> TRUE] >>
    /\ returned.props.items[1].type = "OscalPartProperty"

----------------------------------------------------------------------------
(* The candidate tables a type declares and the ones the hook applies *)

\* C23: every candidate list a type declares is applied by the hook.  When
\* the hook has run and the allowed-value check did not fail, the record is
\* accepted exactly when every value of every field with declared candidates
\* has or can be given a candidate type, and the accepted record holds only
\* values of candidate types in those fields; so the properties of a control
\* are narrowed to the control property type and a control with a property
\* that validates as none is rejected.
C23_DeclaredCandidatesAreApplied ==
    ( hook_status \in {"returned_self", "returned_copy", "narrowing_error"}
      /\ narrow_runs <= 1 ) =>
        \A field \in candidate_fields(declared_field_types(self.type)) :
            LET types == merged_candidates(declared_field_types(self.type), field)
            IN /\ ~ can_be_narrowed(self, field, types) => hook_status = "narrowing_error"
               /\ hook_status # "narrowing_error" =>
                     \A i \in 1..Len(items_of(field_value(returned, field))) :
                        InList(items_of(field_value(returned, field))[i].type, types)

\* the part of C23 that holds: what is declared under the name the hook
\* calls, get_allowed_field_types, is applied
DeclaredUnderTheHookNameIsApplied ==
    ( hook_status \in {"returned_self", "returned_copy", "narrowing_error"}
      /\ narrow_runs <= 1 /\ self.type # "Control" ) =>
        \A field \in candidate_fields(get_allowed_field_types(self.type)) :
            LET types == merged_candidates(get_allowed_field_types(self.type), field)
            IN /\ ~ can_be_narrowed(self, field, types) => hook_status = "narrowing_error"
               /\ hook_status # "narrowing_error" =>
                     \A i \in 1..Len(items_of(field_value(returned, field))) :
                        InList(items_of(field_value(returned, field))[i].type, types)

----------------------------------------------------------------------------
(* The tables of a type across validations *)

----------------------------------------------------------------------------
(* Two validations side by side *)

\* what the hook gives when it is the only one running
outcome_alone(v) == hook_steps(v.self_at_call, v.check # "Invalid")

\* C25: two validations of two distinct records share no state that either
\* changes.  However their steps interleave, a validation that has ended has
\* the outcome it has when run alone on its record: the same acceptance or
\* error, the same returned record, the same error message and the same
\* trials; the tables the types give out stay what they were.
C25_InterleavingDoesNotChangeTheOutcome ==
    /\ validations # << >> =>
          type_tables = [ T \in TwoTypes |-> get_allowed_field_types(T) ]
    /\ \A t \in DOMAIN validations :
          validations[t].pc = "done" =>
             /\ validations[t].check \in
                   { value_check_of(validations[t].self_at_call, g) :
                       g \in get_restricted_field_set_dict(
                                get_allowed_field_values(validations[t].self_at_call.type)) }
             /\ validations[t].status = outcome_alone(validations[t]).status
             /\ validations[t].returned = outcome_alone(validations[t]).rec
             /\ validations[t].message = outcome_alone(validations[t]).message
             /\ validations[t].trials = outcome_alone(validations[t]).log
             /\ validations[t].self = outcome_alone(validations[t]).self_after

\* C25 witness: the second validation ran from start to end, returning a
\* narrowed copy, while the first was between the narrowing of its first and
\* of its second field, and the first then ended with a narrowed copy too
C25_Witness ==
    /\ validations # << >>
    /\ validations[1].pc = "done"
    /\ validations[2].pc = "done"
    /\ validations[1].status = "returned_copy"
    /\ validations[2].status = "returned_copy"
    /\ validations[1].self_at_call.type = "AssesmentMethodPart"
    /\ validations[2].self_at_call.type = "AssesmentMethodPart"
    /\ validations[1].self_at_call # validations[2].self_at_call

\* two validations in the middle of their narrowing at the same time
C25_BothNarrowing ==
    /\ validations # << >>
    /\ validations[1].pc = "narrowing"
    /\ validations[2].pc = "narrowing"
    /\ frames[1].k = 2
    /\ frames[2].k = 2
    /\ DOMAIN frames[1].typed_fields # {}
    /\ DOMAIN frames[2].typed_fields = {}

----------------------------------------------------------------------------
(* Termination *)

\* the validation of thread t has ended, by accepting or with an error
has_ended(t) ==
    /\ validations[t].pc = "done"
    /\ validations[t].status \in
          {"value_error", "narrowing_error", "returned_self", "returned_copy"}

\* the values of the candidate-restricted fields of a record, counted once
\* for every candidate of their field
trials_at_most(obj, tables) ==
    LET fields == set_to_seq(candidate_fields(tables))
        count[k \in 0..Len(fields)] ==
            IF k = 0 THEN 0
            ELSE count[k - 1]
                 + Len(items_of(field_value(obj, fields[k])))
                   * Len(merged_candidates(tables, fields[k]))
    IN count[Len(fields)]

\* a validation takes one step per phase and one per candidate-restricted
\* field, and tries a value against each candidate of its field at most once
bounded_work(t) ==
    LET v == validations[t]
        tables == get_allowed_field_types(v.self_at_call.type)
    IN /\ v.steps <= 4 + Cardinality(candidate_fields(tables))
       /\ Len(v.trials) <= trials_at_most(v.self_at_call, tables)
       /\ frames[t].k <= Len(frames[t].order) + 1

\* C26: the validation of a finite record tree always terminates, with
\* acceptance or with an error.  Every validation that is run on ends; it
\* passes once over the fields of the merged table, and it tries each value
\* against each candidate at most once, each trial being the full validation
\* of one child of the record.
C26_ValidationTerminates ==
    /\ [](\A t \in Threads : bounded_work(t))
    /\ <>[](\A t \in Threads : has_ended(t))

\* C26 witness: a statement has been accepted whose generic nested part,
\* holding a generic part itself, was narrowed to a statement item together
\* with the part it holds
C26_Witness ==
    /\ validations # << >>
    /\ has_ended(1)
    /\ validations[1].status = "returned_copy"
    /\ validations[1].self_at_call.type = "StatementPart"
    /\ validations[1].self_at_call.parts.kind = "list"
    /\ validations[1].self_at_call.parts.items[1].type = "BasePart"
    /\ validations[1].self_at_call.parts.items[1].parts.kind = "list"
    /\ validations[1].self_at_call.parts.items[1].parts.items[1].type = "BasePart"
    /\ validations[1].returned.parts.items[1].type = "StatementItemPart"
    /\ validations[1].returned.parts.items[1].parts.items[1].type = "StatementItemPart"

----------------------------------------------------------------------------
(* Rules on optional fields *)

\* the restricted fields of the record that are unset
unset_restricted_fields(object_dict, allowed_values_list) ==
    { f \in restricted_fields_in_this_object(object_dict, allowed_values_list) :
        object_dict[f] = None }

\* C27: a rule on an optional field makes the field required.  A record that
\* leaves a restricted field unset is rejected whenever the group of that
\* field, the fields connected to it through the rules, has no satisfied
\* rule, a rule being satisfied when all its fields match.
C27_UnsetRestrictedFieldIsRejected ==
    GroupsComputed =>
        \A f \in unset_restricted_fields(this_object_dict, allowed_values) :
            \A g \in connected_components(allowed_values) :
                ( f \in g /\ ~ group_satisfied(this_object_dict, allowed_values, g) )
                    => outcome = "Invalid"

\* the rule table has rules on single fields only
single_field_rules(allowed_values_list) ==
    \A i \in 1..Len(allowed_values_list) : Cardinality(DOMAIN allowed_values_list[i]) = 1

\* the part of C27 that holds: with rules on single fields only, as for a
\* party, a record leaving a restricted field unset is rejected
UnsetFieldOfSingleFieldRulesIsRejected ==
    ( GroupsComputed /\ single_field_rules(allowed_values) ) =>
        ( unset_restricted_fields(this_object_dict, allowed_values) # {}
            => outcome = "Invalid" )

\* a party created without type has been rejected
PartyWithoutTypeRejected ==
    /\ allowed_values = Party_allowed_field_values
    /\ this_object_dict.type = None
    /\ outcome = "Invalid"

----------------------------------------------------------------------------
(* Records of a subclass of a candidate *)

\* the class of the record is derived from a candidate without being one
subclass_of_a_candidate(item, types) ==
    /\ ~ InList(item.type, types)
    /\ \E k \in 1..Len(types) : issubclass(item.type, types[k])

\* the position under which the trials of a value are logged and the value
\* that the mapping holds for it
log_index(v, i) == IF v.kind = "single" THEN 0 ELSE i

\* C28: the test for an already typed value compares the exact type.  A
\* value whose class is derived from a candidate but is not itself in the
\* list is not left as it is: its dumped data is validated against the
\* candidates in list order, and the value is replaced by the instance of the
\* first candidate that validates, or the narrowing fails if none does.
C28_SubclassOfCandidateIsRevalidated ==
    hook_status \in {"narrowed", "narrowing_error"} =>
        \A field \in candidate_fields(allowed_field_types) :
            LET v == field_value(self, field)
                types == merged_candidates(allowed_field_types, field)
            IN \A i \in 1..Len(items_of(v)) :
                  subclass_of_a_candidate(items_of(v)[i], types) =>
                     LET data == model_dump(items_of(v)[i])
                         passing == { k \in 1..Len(types) :
                                        model_validate(types[k], data).ok }
                     IN /\ passing = {} => hook_status = "narrowing_error"
                        /\ hook_status = "narrowed" =>
                              \E k \in passing :
                                 /\ \A j \in passing : k <= j
                                 /\ field \in DOMAIN typed_fields
                                 /\ items_of(typed_fields[field])[i] =
                                       model_validate(types[k], data).rec
                                 /\ items_of(typed_fields[field])[i].type = types[k]
                                 /\ items_of(typed_fields[field])[i] # items_of(v)[i]
                                 /\ trials_of(field, log_index(v, i)) =
                                       [ j \in 1..k |->
                                           [field |-> field, index |-> log_index(v, i),
                                            type |-> types[j], ok |-> (j = k)] ]

\* C28 witness: a part property in a list whose candidates are the assessment
\* method property and the base property, its base class, was tried as the
\* first, which failed, and replaced by an instance of the base property
C28_Witness ==
    /\ hook_status = "narrowed"
    /\ merged_candidates(allowed_field_types, "props") =
          << "OscalAssessmentMethodProperty", "BaseProperty" >>
    /\ self.props.kind = "list"
    /\ Len(self.props.items) > 0
    /\ self.props.items[1].type = "OscalPartProperty"
    /\ "props" \in DOMAIN typed_fields
    /\ typed_fields.props.items[1].type = "BaseProperty"
    /\ Len(trials_of("props", 1)) = 2

----------------------------------------------------------------------------
(* The record verify_field_types is called on *)

\* C29: verify_field_types never modifies the record it is called on.  When
\* it has returned or raised, every field of the record holds what it held
\* before the call, also a list field processed before a later field failed;
\* the narrowed values are in the returned mapping only.
C29_RecordIsNotModified ==
    narrow_runs >= 1 => self_after = self

\* the part of C29 that holds: a field holding a single record is not
\* assigned, its narrowed value is in the mapping only
SingleRecordFieldIsNotModified ==
    narrow_runs >= 1 =>
        \A field \in DOMAIN self \cap {"prop", "props", "parts"} :
            self[field].kind # "list" => self_after[field] = self[field]

----------------------------------------------------------------------------
(* The rules and the groups of the partitioning *)

\* C30: the partitioning drops no rule.  The key set of every rule is a
\* subset of at least one of the returned groups, so that every rule is a
\* candidate of some group, and every returned group has at least one
\* candidate rule.
C30_NoRuleIsDropped ==
    GroupsComputed =>
        /\ \A i \in 1..Len(allowed_values) :
              \E g \in DOMAIN restricted_field_set_dict : DOMAIN allowed_values[i] \subseteq g
        /\ \A g \in DOMAIN restricted_field_set_dict :
              allowed_values_to_check(allowed_values, g) # {}

\* C30 witness: three rules in two groups, one group being the key set of a
\* rule that took the place of the smaller key set of an earlier rule
C30_Witness ==
    /\ GroupsComputed
    /\ Len(allowed_values) = 3
    /\ Cardinality(DOMAIN restricted_field_set_dict) = 2
    /\ \E g \in DOMAIN restricted_field_set_dict :
          /\ Cardinality(allowed_values_to_check(allowed_values, g)) = 2
          /\ \E i, j \in allowed_values_to_check(allowed_values, g) :
                /\ i < j
                /\ DOMAIN allowed_values[i] # g
                /\ DOMAIN allowed_values[j] = g

====
